---------------------------- MODULE Spec2Model ----------------------------
(***************************************************************************)
(* Flight search aggregation pipeline (dharmasatrya/flightsearch).         *)
(*                                                                         *)
(* The model follows one HTTP request at a time through                    *)
(* SearchHandler.Search: bind, validate, cache probe, Aggregator.Search    *)
(* (one goroutine per provider, a joiner, the draining main routine, the   *)
(* deadline context), cache store, filter/rank/sort, response.  The cache  *)
(* outlives the requests.                                                  *)
(*                                                                         *)
(* Conventions.  A Go pointer or optional value is a sequence: <<>> is     *)
(* nil, <<v>> points at v.  A Go error is a string, NoErr being nil.       *)
(* float64 amounts are integers, a best-value score is kept in hundredths. *)
(* A time.Time is [utc |-> minutes, off |-> zone offset in minutes].       *)
(* Time is not measured: a timer may fire at any moment, and a select      *)
(* with several ready cases takes any of them.  A timer created by the     *)
(* select that polls it has not fired when that select polls.              *)
(***************************************************************************)
EXTENDS Integers, Sequences, FiniteSets, TLC

(***************************************************************************)
(* Bounds of the model.                                                    *)
(***************************************************************************)
MaxProviders == 2        \* providers of a single aggregation (AggSpec)
MaxRetriesBound == 1     \* the largest configured MaxRetries
HandlerProviders == 1    \* providers behind the request pipeline (Spec)

(***************************************************************************)
(* Program constants.                                                      *)
(***************************************************************************)
CacheHitProviders == 4

NoErr == "nil"
DeadlineExceeded == "context deadline exceeded"
Canceled == "context canceled"
ErrWouldExceedDeadline == "rate: Wait(n=1) would exceed context deadline"
ErrAirAsiaTemporaryFailure == "temporary service unavailable"
ErrMissingOrigin == "origin is required"
ErrMissingDestination == "destination is required"
ErrMissingDepartureDate == "departure_date is required"

StatusOK == 200
StatusBadRequest == 400
StatusInternalServerError == 500

Nil == <<>>
Ptr(v) == <<v>>
Deref(p) == p[1]

(***************************************************************************)
(* strings.EqualFold / strings.ToLower over the strings of the model.      *)
(***************************************************************************)
ToLower(s) ==
    CASE s = "CGK" -> "cgk"
      [] s = "DPS" -> "dps"
      [] s = "Economy" -> "economy"
      [] s = "ECONOMY" -> "economy"
      [] s = "Stops" -> "stops"
      [] s = "Best_Value" -> "best_value"
      [] s = "PRICE" -> "price"
      [] s = "BEST_VALUE" -> "best_value"
      [] s = "DESC" -> "desc"
      [] s = "QZ" -> "qz"
      [] s = "GA" -> "ga"
      [] s = "JT" -> "jt"
      [] s = "ID" -> "id"
      [] OTHER -> s

EqualFold(a, b) == ToLower(a) = ToLower(b)

(***************************************************************************)
(* The providers.  initializeProviders builds the list; NewAggregator      *)
(* takes any list, so the configured list is a prefix of ProviderOrder.    *)
(* Only AirAsia has a simulated transient failure.                         *)
(***************************************************************************)
ProviderOrder == <<"airasia", "garuda", "lionair", "batikair">>
AllProviders == {ProviderOrder[i] : i \in 1..Len(ProviderOrder)}
ProviderList(n) == SubSeq(ProviderOrder, 1, n)

CanFail(p) == p = "airasia"

Time(utc, off) == [utc |-> utc, off |-> off]

Offer(id, p, code, dep, arr, mins, stops, price) ==
    [ID |-> id, Provider |-> p, AirlineCode |-> code,
     DepAirport |-> "CGK", ArrAirport |-> "DPS", CabinClass |-> "economy",
     DepDate |-> "2025-12-15", DepTime |-> dep, ArrTime |-> arr,
     TotalMinutes |-> mins, Stops |-> stops, Price |-> price,
     BestValueScore |-> 0]

(* An offer of the opposite direction, five days later. *)
ReturnOffer(id, p, code, dep, arr, mins, stops, price) ==
    [Offer(id, p, code, dep, arr, mins, stops, price) EXCEPT
        !.DepAirport = "DPS", !.ArrAirport = "CGK", !.DepDate = "2025-12-20"]

(* The offers a provider holds (its fixture table), already in canonical shape. *)
Fixture(p) ==
    CASE p = "airasia" -> << Offer("QZ1", p, "QZ", Time(0, 420), Time(105, 480), 105, 0, 6),
                             Offer("QZ2", p, "QZ", Time(300, 420), Time(560, 480), 260, 1, 4),
                             ReturnOffer("QZ3", p, "QZ", Time(7200, 480), Time(7310, 420), 110, 0, 7) >>
      [] p = "garuda" -> << Offer("GA1", p, "GA", Time(60, 420), Time(170, 480), 110, 0, 12),
                            ReturnOffer("GA2", p, "GA", Time(7300, 480), Time(7400, 420), 100, 0, 11) >>
      [] p = "lionair" -> << Offer("JT1", p, "JT", Time(120, 420), Time(350, 480), 230, 1, 5) >>
      [] p = "batikair" -> << Offer("ID1", p, "ID", Time(200, 420), Time(315, 480), 115, 0, 9) >>
      [] OTHER -> << >>

(* Provider.Search after its latency wait: the offers matching the request. *)
MatchesRequest(f, req) ==
    /\ EqualFold(f.DepAirport, req.Origin)
    /\ EqualFold(f.ArrAirport, req.Destination)
    /\ EqualFold(f.CabinClass, req.CabinClass)
    /\ f.DepDate = req.DepartureDate

ProviderFlights(p, req) ==
    LET Test(f) == MatchesRequest(f, req) IN SelectSeq(Fixture(p), Test)

(***************************************************************************)
(* models.SearchRequest and its validation.                                *)
(***************************************************************************)
Request(o, d, dd, rd, n, cc, fl, sb, so) ==
    [Origin |-> o, Destination |-> d, DepartureDate |-> dd, ReturnDate |-> rd,
     Passengers |-> n, CabinClass |-> cc, Filters |-> fl, SortBy |-> sb,
     SortOrder |-> so]

ValidationError(r) ==
    IF r.Origin = "" THEN ErrMissingOrigin
    ELSE IF r.Destination = "" THEN ErrMissingDestination
    ELSE IF r.DepartureDate = "" THEN ErrMissingDepartureDate
    ELSE NoErr

WithDefaults(r) ==
    [r EXCEPT !.Passengers = IF r.Passengers <= 0 THEN 1 ELSE r.Passengers,
              !.CabinClass = IF r.CabinClass = "" THEN "economy" ELSE r.CabinClass,
              !.SortBy = IF r.SortBy = "" THEN "best_value" ELSE r.SortBy,
              !.SortOrder = IF r.SortOrder = "" THEN "asc" ELSE r.SortOrder]

ValidateDefaultsFirst(r) == [err |-> ValidationError(r), req |-> WithDefaults(r)]

(* SearchRequest.Validate: the error it returns and the request it leaves. *)
Validate(r) ==
    IF ValidationError(r) # NoErr
    THEN [err |-> ValidationError(r), req |-> r]
    ELSE [err |-> NoErr, req |-> WithDefaults(r)]

IsRoundTrip(r) == r.ReturnDate # Nil /\ Deref(r.ReturnDate) # ""

(***************************************************************************)
(* cache.generateKey: the six key fields copied into keyData, marshalled   *)
(* to JSON in field order, hashed and prefixed.  A JSON value is a quoted  *)
(* string or a number; SHA-256 and the hex encoding are an opaque wrapper  *)
(* of the bytes they digest.                                               *)
(***************************************************************************)
JStr(s) == [str |-> s]
JNum(n) == [num |-> n]

KeyData(req) ==
    [Origin |-> req.Origin, Destination |-> req.Destination,
     DepartureDate |-> req.DepartureDate,
     ReturnDate |-> IF req.ReturnDate # Nil THEN Deref(req.ReturnDate) ELSE "",
     Passengers |-> req.Passengers, CabinClass |-> req.CabinClass]

MarshalKeyData(k) ==
    << <<"Origin", JStr(k.Origin)>>, <<"Destination", JStr(k.Destination)>>,
       <<"DepartureDate", JStr(k.DepartureDate)>>, <<"ReturnDate", JStr(k.ReturnDate)>>,
       <<"Passengers", JNum(k.Passengers)>>, <<"CabinClass", JStr(k.CabinClass)>> >>

Sha256Hex(data) == [sha256 |-> data]

generateKeyWithSort(req) ==
    <<"flight:", Sha256Hex(Append(MarshalKeyData(KeyData(req)), <<"SortBy", JStr(req.SortBy)>>))>>

generateKey(req) == <<"flight:", Sha256Hex(MarshalKeyData(KeyData(req)))>>

(***************************************************************************)
(* json.Marshal / json.Unmarshal of []models.Flight, as RedisCache.Set and *)
(* RedisCache.Get use them: fields take their json tags and                *)
(* best_value_score is omitted when zero.                                  *)
(***************************************************************************)
MarshalFlight(f) ==
    LET base == [id |-> f.ID, provider |-> f.Provider, airline |-> f.AirlineCode,
                 dep_airport |-> f.DepAirport, arr_airport |-> f.ArrAirport,
                 cabin_class |-> f.CabinClass, dep_date |-> f.DepDate,
                 dep_time |-> f.DepTime, arr_time |-> f.ArrTime,
                 total_minutes |-> f.TotalMinutes, stops |-> f.Stops,
                 amount |-> f.Price]
    IN IF f.BestValueScore = 0 THEN base
       ELSE [k \in DOMAIN base \cup {"best_value_score"} |->
                IF k = "best_value_score" THEN f.BestValueScore ELSE base[k]]

UnmarshalFlight(j) ==
    [ID |-> j.id, Provider |-> j.provider, AirlineCode |-> j.airline,
     DepAirport |-> j.dep_airport, ArrAirport |-> j.arr_airport,
     CabinClass |-> j.cabin_class, DepDate |-> j.dep_date,
     DepTime |-> j.dep_time, ArrTime |-> j.arr_time,
     TotalMinutes |-> j.total_minutes, Stops |-> j.stops, Price |-> j.amount,
     BestValueScore |-> IF "best_value_score" \in DOMAIN j
                        THEN j.best_value_score ELSE 0]

MarshalFlights(fs) == [i \in 1..Len(fs) |-> MarshalFlight(fs[i])]
UnmarshalFlights(js) == [i \in 1..Len(js) |-> UnmarshalFlight(js[i])]

(***************************************************************************)
(* filter.applyFilters / matchesFilters.                                   *)
(***************************************************************************)
Filters(pmin, pmax, ms, al, dmin, dmax, amin, amax, md) ==
    [PriceMin |-> pmin, PriceMax |-> pmax, MaxStops |-> ms, Airlines |-> al,
     DepartureTimeMin |-> dmin, DepartureTimeMax |-> dmax,
     ArrivalTimeMin |-> amin, ArrivalTimeMax |-> amax, MaxDuration |-> md]

(* time.Parse("15:04", s), over the strings of the model. *)
parseTimeOfDay(s) ==
    CASE s = "00:00" -> [ok |-> TRUE, v |-> 0]
      [] s = "06:00" -> [ok |-> TRUE, v |-> 360]
      [] s = "08:00" -> [ok |-> TRUE, v |-> 480]
      [] s = "12:00" -> [ok |-> TRUE, v |-> 720]
      [] s = "23:59" -> [ok |-> TRUE, v |-> 1439]
      [] OTHER -> [ok |-> FALSE, v |-> 0]

(* t.Hour()*60 + t.Minute(): the wall clock of t in its own zone. *)
MinuteOfDay(t) == (t.utc + t.off) % 1440

AfterMin(t, bound) ==
    bound = Nil \/ ~parseTimeOfDay(Deref(bound)).ok
    \/ MinuteOfDay(t) >= parseTimeOfDay(Deref(bound)).v

BeforeMax(t, bound) ==
    bound = Nil \/ ~parseTimeOfDay(Deref(bound)).ok
    \/ MinuteOfDay(t) <= parseTimeOfDay(Deref(bound)).v

matchesFiltersExactCase(f, fl) ==
    /\ ~(fl.PriceMin # Nil /\ f.Price < Deref(fl.PriceMin))
    /\ ~(fl.PriceMax # Nil /\ f.Price > Deref(fl.PriceMax))
    /\ ~(fl.MaxStops # Nil /\ f.Stops > Deref(fl.MaxStops))
    /\ (Len(fl.Airlines) > 0 =>
           \E i \in 1..Len(fl.Airlines) : f.AirlineCode = fl.Airlines[i])
    /\ AfterMin(f.DepTime, fl.DepartureTimeMin)
    /\ BeforeMax(f.DepTime, fl.DepartureTimeMax)
    /\ AfterMin(f.ArrTime, fl.ArrivalTimeMin)
    /\ BeforeMax(f.ArrTime, fl.ArrivalTimeMax)
    /\ ~(fl.MaxDuration # Nil /\ f.TotalMinutes > Deref(fl.MaxDuration))

matchesFilters(f, fl) ==
    /\ ~(fl.PriceMin # Nil /\ f.Price < Deref(fl.PriceMin))
    /\ ~(fl.PriceMax # Nil /\ f.Price > Deref(fl.PriceMax))
    /\ ~(fl.MaxStops # Nil /\ f.Stops > Deref(fl.MaxStops))
    /\ (Len(fl.Airlines) > 0 =>
           \E i \in 1..Len(fl.Airlines) : EqualFold(f.AirlineCode, fl.Airlines[i]))
    /\ AfterMin(f.DepTime, fl.DepartureTimeMin)
    /\ BeforeMax(f.DepTime, fl.DepartureTimeMax)
    /\ AfterMin(f.ArrTime, fl.ArrivalTimeMin)
    /\ BeforeMax(f.ArrTime, fl.ArrivalTimeMax)
    /\ ~(fl.MaxDuration # Nil /\ f.TotalMinutes > Deref(fl.MaxDuration))

applyFilters(flights, filters) ==
    IF filters = Nil THEN flights
    ELSE LET Test(f) == matchesFilters(f, Deref(filters))
         IN SelectSeq(flights, Test)

(***************************************************************************)
(* ranking.CalculateScores.  A score is a float rounded to two decimals;   *)
(* the model keeps it in hundredths, rounding half away from zero as       *)
(* math.Round does.                                                        *)
(***************************************************************************)
MaxOf(S) == IF S = {} THEN 0 ELSE CHOOSE m \in S : \A x \in S : x <= m

findMaxPrice(flights) ==
    MaxOf({0} \cup {flights[i].Price : i \in 1..Len(flights)})

findMaxDuration(flights) ==
    MaxOf({0} \cup {flights[i].TotalMinutes : i \in 1..Len(flights)})

RoundDiv(n, d) ==
    IF n >= 0 THEN (2 * n + d) \div (2 * d) ELSE 0 - ((2 * (0 - n) + d) \div (2 * d))

(* 100 * (0.5*priceScore + 0.3*durationScore + 0.2*stopsScore), rounded. *)
CalculateBestValue(f, maxPrice, maxDuration) ==
    LET pn == IF maxPrice > 0 THEN 5000 * f.Price ELSE 0
        pd == IF maxPrice > 0 THEN maxPrice ELSE 1
        dn == IF maxDuration > 0 THEN 3000 * f.TotalMinutes ELSE 0
        dd == IF maxDuration > 0 THEN maxDuration ELSE 1
    IN RoundDiv(pn * dd + dn * pd + 300 * f.Stops * pd * dd, pd * dd)

CalculateScores(flights) ==
    IF Len(flights) = 0 THEN flights
    ELSE [i \in 1..Len(flights) |->
            [flights[i] EXCEPT !.BestValueScore =
                CalculateBestValue(flights[i], findMaxPrice(flights),
                                   findMaxDuration(flights))]]

(***************************************************************************)
(* filter.applySort.  sort.Slice on at most 12 elements is an insertion    *)
(* sort: element i is swapped leftwards while it is less than its left     *)
(* neighbour.                                                              *)
(***************************************************************************)
SortKey(f, by) ==
    CASE by = "price" -> f.Price
      [] by = "duration" -> f.TotalMinutes
      [] by = "departure" -> f.DepTime.utc
      [] by = "arrival" -> f.ArrTime.utc
      [] by = "best_value" -> f.BestValueScore
      [] by = "stops" -> f.Stops
      [] OTHER -> f.Price

RecognizedSortKeys == {"price", "duration", "departure", "arrival", "best_value", "stops"}

LessAscendingOnly(a, b, sortBy, sortOrder) ==
    SortKey(a, ToLower(sortBy)) < SortKey(b, ToLower(sortBy))

LessReversedForAnyKey(a, b, sortBy, sortOrder) ==
    IF ToLower(sortOrder) = "desc"
    THEN SortKey(a, ToLower(sortBy)) > SortKey(b, ToLower(sortBy))
    ELSE SortKey(a, ToLower(sortBy)) < SortKey(b, ToLower(sortBy))

(* The less function applySort hands to sort.Slice. *)
Less(a, b, sortBy, sortOrder) ==
    LET by == ToLower(sortBy)
        ascending == ToLower(sortOrder) # "desc"
    IN IF by \in RecognizedSortKeys /\ ~ascending
       THEN SortKey(a, by) > SortKey(b, by)
       ELSE SortKey(a, by) < SortKey(b, by)

Swap(s, i, j) == [s EXCEPT ![i] = s[j], ![j] = s[i]]

SiftLeftOnce(s, j, sortBy, sortOrder) ==
    IF j > 1 /\ Less(s[j], s[j - 1], sortBy, sortOrder) THEN Swap(s, j, j - 1) ELSE s

RECURSIVE SiftLeft(_, _, _, _)
SiftLeft(s, j, sortBy, sortOrder) ==
    IF j > 1 /\ Less(s[j], s[j - 1], sortBy, sortOrder)
    THEN SiftLeft(Swap(s, j, j - 1), j - 1, sortBy, sortOrder)
    ELSE s

RECURSIVE InsertionSort(_, _, _, _)
InsertionSort(s, i, sortBy, sortOrder) ==
    IF i > Len(s) THEN s
    ELSE InsertionSort(SiftLeft(s, i, sortBy, sortOrder), i + 1, sortBy, sortOrder)

(***************************************************************************)
(* sort.Slice on more than 12 elements is pdqsort: choose the median of    *)
(* the elements at the three quarter points as pivot, return at once if no *)
(* index swap was needed and the slice is already in order, otherwise      *)
(* partition around the pivot and sort both sides.  With 13 elements, the  *)
(* longest list sorted here, both sides are at most 12 long and so are     *)
(* insertion sorted.                                                       *)
(***************************************************************************)
MaxInsertion == 12

(* order2: the two indices in order, and whether they had to be exchanged. *)
Order2(s, a, b, sortBy, sortOrder) ==
    IF Less(s[b], s[a], sortBy, sortOrder) THEN <<b, a, 1>> ELSE <<a, b, 0>>

(* median and choosePivot for 8 <= length < 50: the pivot index and the swap count. *)
ChoosePivot(s, sortBy, sortOrder) ==
    LET q == Len(s) \div 4
        o1 == Order2(s, 1 + q, 1 + 2 * q, sortBy, sortOrder)
        o2 == Order2(s, o1[2], 1 + 3 * q, sortBy, sortOrder)
        o3 == Order2(s, o1[1], o2[1], sortBy, sortOrder)
    IN [pivot |-> o3[2], swaps |-> o1[3] + o2[3] + o3[3]]

(* partialInsertionSort below 50 elements: only reports whether s is in order. *)
InOrder(s, sortBy, sortOrder) ==
    \A i \in 2..Len(s) : ~Less(s[i], s[i - 1], sortBy, sortOrder)

RECURSIVE ScanUp(_, _, _, _, _, _)
ScanUp(s, i, j, a, sortBy, sortOrder) ==
    IF i <= j /\ Less(s[i], s[a], sortBy, sortOrder)
    THEN ScanUp(s, i + 1, j, a, sortBy, sortOrder) ELSE i

RECURSIVE ScanDown(_, _, _, _, _, _)
ScanDown(s, i, j, a, sortBy, sortOrder) ==
    IF i <= j /\ ~Less(s[j], s[a], sortBy, sortOrder)
    THEN ScanDown(s, i, j - 1, a, sortBy, sortOrder) ELSE j

RECURSIVE PartitionLoop(_, _, _, _, _, _)
PartitionLoop(s, i, j, a, sortBy, sortOrder) ==
    LET i2 == ScanUp(s, i, j, a, sortBy, sortOrder)
        j2 == ScanDown(s, i2, j, a, sortBy, sortOrder)
    IN IF i2 > j2 THEN [s |-> s, j |-> j2]
       ELSE PartitionLoop(Swap(s, i2, j2), i2 + 1, j2 - 1, a, sortBy, sortOrder)

(* partition: the pivot goes first, the scans exchange misplaced pairs, the
   pivot lands at mid. *)
Partition(s, pivot, sortBy, sortOrder) ==
    LET r == PartitionLoop(Swap(s, 1, pivot), 2, Len(s), 1, sortBy, sortOrder)
    IN [s |-> Swap(r.s, r.j, 1), mid |-> r.j]

Pdqsort(s, sortBy, sortOrder) ==
    LET c == ChoosePivot(s, sortBy, sortOrder)
        part == Partition(s, c.pivot, sortBy, sortOrder)
        left == SubSeq(part.s, 1, part.mid - 1)
        right == SubSeq(part.s, part.mid + 1, Len(s))
    IN IF c.swaps = 0 /\ InOrder(s, sortBy, sortOrder) THEN s
       ELSE InsertionSort(left, 2, sortBy, sortOrder) \o <<part.s[part.mid]>>
               \o InsertionSort(right, 2, sortBy, sortOrder)

(* sort.Slice(flights, less). *)
SortSlice(s, sortBy, sortOrder) ==
    IF Len(s) <= MaxInsertion THEN InsertionSort(s, 2, sortBy, sortOrder)
    ELSE Pdqsort(s, sortBy, sortOrder)

applySort(flights, sortBy, sortOrder) ==
    IF Len(flights) = 0 THEN flights
    ELSE SortSlice(flights, sortBy, sortOrder)

(* filter.Apply: filter, then rank when sortBy is exactly "best_value", then sort. *)
ApplyRankFirst(flights, filters, sortBy, sortOrder) ==
    LET ranked == IF sortBy = "best_value" THEN CalculateScores(flights) ELSE flights
    IN applySort(applyFilters(ranked, filters), sortBy, sortOrder)

ApplyAlwaysRanks(flights, filters, sortBy, sortOrder) ==
    applySort(CalculateScores(applyFilters(flights, filters)), sortBy, sortOrder)

Apply(flights, filters, sortBy, sortOrder) ==
    LET filtered == applyFilters(flights, filters)
        ranked == IF sortBy = "best_value" THEN CalculateScores(filtered) ELSE filtered
    IN applySort(ranked, sortBy, sortOrder)

(***************************************************************************)
(* The state.                                                              *)
(***************************************************************************)
VARIABLES
    config,      \* what main wires up: the provider list, MaxRetries, the cache kind
    hpc,         \* where SearchHandler.Search stands with the current request
    req,         \* the bound and validated request
    callerDone,  \* the request's context has been cancelled by the caller
    response,    \* the response written for the current request
    cache,       \* the backend: a set of entries [key, data], one per key
    agg,         \* per leg, one Aggregator.Search invocation
    workers,     \* per leg and provider, the provider's goroutine
    trace,       \* history: what the handler did for the current request, in order
    cacheProv,   \* history: per cache key, the aggregation whose list was stored
    unitIn,      \* the arguments of a function applied on its own
    unitOut,     \* and what it returned
    rt           \* one Aggregator.SearchRoundTrip invocation

unit == <<unitIn, unitOut>>

vars == <<config, hpc, req, callerDone, response, cache, agg, workers, trace, cacheProv,
          unitIn, unitOut, rt>>

Legs == {"out", "ret"}

Providers == {config.providers[i] : i \in 1..Len(config.providers)}

NoRequest == Request("", "", "", Nil, 0, "", Nil, "", "")
NoResponse == [status |-> 0]

EmptyResult(n) ==
    [Flights |-> <<>>, ProvidersQueried |-> n, ProvidersSucceeded |-> 0,
     ProvidersFailed |-> 0, FailedProviders |-> <<>>]

IdleLeg ==
    [state |-> "off", ctx |-> "alive", req |-> NoRequest, resultCh |-> <<>>,
     closed |-> FALSE, result |-> EmptyResult(0), err |-> NoErr]

IdleRt ==
    [state |-> "off", ctx |-> "alive", resultCh |-> <<>>, sent |-> {}, got |-> <<>>,
     outbound |-> Nil, returnResult |-> Nil, outboundErr |-> NoErr, returnErr |-> NoErr,
     ret |-> [outbound |-> Nil, returnResult |-> Nil, err |-> NoErr]]

IdleWorker ==
    [pc |-> "idle", attempt |-> 0, lastErr |-> NoErr, flights |-> <<>>, err |-> NoErr,
     calls |-> 0, okCalls |-> 0, tokens |-> 0, lateCall |-> FALSE]

(***************************************************************************)
(* The requests a caller may send.                                         *)
(***************************************************************************)
DirectOnly == Filters(Nil, Nil, Ptr(0), <<>>, Nil, Nil, Nil, Nil, Nil)

OneWayBodies ==
    {Request("CGK", "DPS", "2025-12-15", Nil, 0, "", Nil, "", ""),
     Request("CGK", "DPS", "2025-12-15", Nil, 1, "economy", Ptr(DirectOnly), "price", "asc"),
     Request("", "DPS", "2025-12-15", Nil, 0, "", Nil, "", ""),
     Request("CGK", "", "2025-12-15", Nil, 0, "", Nil, "", ""),
     Request("CGK", "DPS", "", Nil, 0, "", Nil, "", "")}

Malformed == [malformed |-> TRUE]

Configs(maxProviders) ==
    [providers : {ProviderList(n) : n \in 0..maxProviders},
     MaxRetries : 0..MaxRetriesBound,
     CacheEnabled : BOOLEAN]

Init ==
    /\ config \in Configs(HandlerProviders)
    /\ unitIn = << >>
    /\ unitOut = << >>
    /\ rt = IdleRt
    /\ hpc = "idle"
    /\ req = NoRequest
    /\ callerDone = FALSE
    /\ response = NoResponse
    /\ cache = {}
    /\ agg = [l \in Legs |-> IdleLeg]
    /\ workers = [l \in Legs |-> [p \in AllProviders |-> IdleWorker]]
    /\ trace = << >>
    /\ cacheProv = {}

(***************************************************************************)
(* Contexts.  A leg's searchCtx is context.WithTimeout over its parent: it *)
(* ends with the parent's error when the parent ends first, and with       *)
(* DeadlineExceeded when its own timer fires first.                        *)
(***************************************************************************)
CtxDone(l) == agg[l].ctx # "alive"
CtxErr(l) == agg[l].ctx

(* The searchCtx timer of leg l fires. *)
DeadlineFires(l) ==
    /\ agg[l].state = "running"
    /\ agg[l].ctx = "alive"
    /\ agg' = [agg EXCEPT ![l].ctx = DeadlineExceeded]
    /\ UNCHANGED <<unit, rt, config, hpc, req, callerDone, response, cache, workers, trace, cacheProv>>

(* The caller goes away: the request context and every context under it end. *)
CallerCancel ==
    /\ hpc \notin {"idle", "responded"}
    /\ ~callerDone
    /\ callerDone' = TRUE
    /\ agg' = [l \in Legs |->
                 IF agg[l].state = "running" /\ agg[l].ctx = "alive"
                 THEN [agg[l] EXCEPT !.ctx = Canceled] ELSE agg[l]]
    /\ rt' = IF rt.state = "running" /\ rt.ctx = "alive"
             THEN [rt EXCEPT !.ctx = Canceled] ELSE rt
    /\ UNCHANGED <<unit, config, hpc, req, response, cache, workers, trace, cacheProv>>

(***************************************************************************)
(* Aggregator.Search, lines 177-222: derive searchCtx, make the result and *)
(* the channel, launch one goroutine per provider and the joiner.  A       *)
(* goroutine launched under an already ended context fails in              *)
(* RateLimiter.Wait.                                                       *)
(***************************************************************************)
LaunchedWorker(parentErr) ==
    IF parentErr = NoErr
    THEN [IdleWorker EXCEPT !.pc = "wait"]
    ELSE [IdleWorker EXCEPT !.pc = "emit", !.err = parentErr]

StartedLeg(r, parentErr) ==
    [state |-> "running", ctx |-> IF parentErr = NoErr THEN "alive" ELSE parentErr,
     req |-> r, resultCh |-> <<>>, closed |-> FALSE,
     result |-> EmptyResult(Len(config.providers)), err |-> NoErr]

LaunchedWorkers(parentErr) ==
    [p \in AllProviders |-> IF p \in Providers THEN LaunchedWorker(parentErr) ELSE IdleWorker]

(***************************************************************************)
(* One provider's goroutine, lines 197-216, and searchWithRetry.           *)
(***************************************************************************)
SetWorker(l, p, w) == workers' = [workers EXCEPT ![l][p] = w]

WorkerFrame == <<unit, rt, config, hpc, req, callerDone, response, cache, agg, trace, cacheProv>>

(* RateLimiter.Wait returns nil: a token was acquired. *)
WaitTokenSkipped(l, p) ==
    LET w == workers[l][p] IN
    /\ w.pc = "wait"
    /\ SetWorker(l, p, [w EXCEPT !.pc = "top"])
    /\ UNCHANGED WorkerFrame

WaitToken(l, p) ==
    LET w == workers[l][p] IN
    /\ w.pc = "wait"
    /\ SetWorker(l, p, [w EXCEPT !.pc = "top", !.tokens = w.tokens + 1])
    /\ UNCHANGED WorkerFrame

(* RateLimiter.Wait gives up before the deadline: rate.Limiter.Wait refuses a
   reservation whose delay would outlast the context's deadline.  Under an
   ended context it returns the context's error instead. *)
WaitWouldExceedDeadlineIgnored(l, p) ==
    LET w == workers[l][p] IN
    /\ w.pc = "wait"
    /\ ~CtxDone(l)
    /\ SetWorker(l, p, [w EXCEPT !.pc = "top"])
    /\ UNCHANGED WorkerFrame

WaitWouldExceedDeadline(l, p) ==
    LET w == workers[l][p] IN
    /\ w.pc = "wait"
    /\ ~CtxDone(l)
    /\ SetWorker(l, p, [w EXCEPT !.pc = "emit", !.err = ErrWouldExceedDeadline])
    /\ UNCHANGED WorkerFrame

(* RateLimiter.Wait returns the context's error; the goroutine emits it. *)
WaitCancelled(l, p) ==
    LET w == workers[l][p] IN
    /\ w.pc = "wait"
    /\ CtxDone(l)
    /\ SetWorker(l, p, [w EXCEPT !.pc = "emit", !.err = CtxErr(l)])
    /\ UNCHANGED WorkerFrame

(* searchWithRetry returns (flights, err): its locals are gone, the goroutine
   holds the pair it is about to send. *)
Returned(w, flights, err) ==
    [w EXCEPT !.pc = "emit", !.attempt = 0, !.lastErr = NoErr,
              !.flights = flights, !.err = err]

LoopTopOneAttemptMore(l, p) ==
    LET w == workers[l][p] IN
    /\ w.pc = "top"
    /\ SetWorker(l, p,
         IF w.attempt > config.MaxRetries + 1 THEN Returned(w, <<>>, w.lastErr)
         ELSE IF CtxDone(l) THEN Returned(w, <<>>, CtxErr(l))
         ELSE IF w.attempt > 0 THEN [w EXCEPT !.pc = "backoff"]
         ELSE [w EXCEPT !.pc = "call"])
    /\ UNCHANGED WorkerFrame

(* Top of the retry loop: the loop condition, then the non-blocking ctx check. *)
LoopTop(l, p) ==
    LET w == workers[l][p] IN
    /\ w.pc = "top"
    /\ SetWorker(l, p,
         IF w.attempt > config.MaxRetries THEN Returned(w, <<>>, w.lastErr)
         ELSE IF CtxDone(l) THEN Returned(w, <<>>, CtxErr(l))
         ELSE IF w.attempt > 0 THEN [w EXCEPT !.pc = "backoff"]
         ELSE [w EXCEPT !.pc = "call"])
    /\ UNCHANGED WorkerFrame

(* The backoff select: time.After(delay) fires. *)
BackoffElapsed(l, p) ==
    LET w == workers[l][p] IN
    /\ w.pc = "backoff"
    /\ SetWorker(l, p, [w EXCEPT !.pc = "call"])
    /\ UNCHANGED WorkerFrame

(* The backoff select: ctx.Done() is taken. *)
BackoffCancelled(l, p) ==
    LET w == workers[l][p] IN
    /\ w.pc = "backoff"
    /\ CtxDone(l)
    /\ SetWorker(l, p, Returned(w, <<>>, CtxErr(l)))
    /\ UNCHANGED WorkerFrame

(* A failed attempt: lastErr = err, attempt++. *)
FailedAttempt(w, e) ==
    [w EXCEPT !.pc = "top", !.lastErr = e, !.attempt = w.attempt + 1]

CallProviderBlind(l, p) ==
    LET w == workers[l][p] IN
    /\ w.pc = "call"
    /\ SetWorker(l, p, [w EXCEPT !.calls = w.calls + 1, !.pc = "search",
                                 !.lateCall = w.lateCall \/ w.okCalls > 0])
    /\ UNCHANGED WorkerFrame

(* provider.Search is called and reaches its select: under an ended context
   it returns ctx.Err() at once, otherwise it blocks on its latency. *)
CallProvider(l, p) ==
    LET w == workers[l][p]
        c == [w EXCEPT !.calls = w.calls + 1,
                       !.lateCall = w.lateCall \/ w.okCalls > 0]
    IN
    /\ w.pc = "call"
    /\ SetWorker(l, p, IF CtxDone(l) THEN FailedAttempt(c, CtxErr(l))
                       ELSE [c EXCEPT !.pc = "search"])
    /\ UNCHANGED WorkerFrame

(* provider.Search: the latency elapsed and the matching offers are returned. *)
SearchSucceeds(l, p) ==
    LET w == workers[l][p] IN
    /\ w.pc = "search"
    /\ SetWorker(l, p, Returned([w EXCEPT !.okCalls = w.okCalls + 1],
                                 ProviderFlights(p, agg[l].req), NoErr))
    /\ UNCHANGED WorkerFrame

(* provider.Search: the latency elapsed and the simulated failure struck. *)
SearchFailsTransiently(l, p) ==
    LET w == workers[l][p] IN
    /\ w.pc = "search"
    /\ CanFail(p)
    /\ SetWorker(l, p, FailedAttempt(w, ErrAirAsiaTemporaryFailure))
    /\ UNCHANGED WorkerFrame

SearchIgnoresContext(l, p) ==
    /\ workers[l][p].pc = "search"
    /\ FALSE
    /\ UNCHANGED vars

(* provider.Search: ctx.Done() is taken. *)
SearchCancelled(l, p) ==
    LET w == workers[l][p] IN
    /\ w.pc = "search"
    /\ CtxDone(l)
    /\ SetWorker(l, p, FailedAttempt(w, CtxErr(l)))
    /\ UNCHANGED WorkerFrame

ChannelCapacity == Len(config.providers)

(* resultCh <- providerResult{...}; wg.Done(). *)
Emit(l, p) ==
    LET w == workers[l][p] IN
    /\ w.pc = "emit"
    /\ Len(agg[l].resultCh) < ChannelCapacity
    /\ agg' = [agg EXCEPT ![l].resultCh =
                 Append(@, [provider |-> p, flights |-> w.flights, err |-> w.err])]
    /\ SetWorker(l, p, [w EXCEPT !.pc = "done"])
    /\ UNCHANGED <<unit, rt, config, hpc, req, callerDone, response, cache, trace, cacheProv>>

JoinerClosesEarly(l) ==
    /\ agg[l].state = "running"
    /\ ~agg[l].closed
    /\ \E p \in Providers : workers[l][p].pc = "done"
    /\ agg' = [agg EXCEPT ![l].closed = TRUE]
    /\ UNCHANGED <<unit, rt, config, hpc, req, callerDone, response, cache, workers, trace, cacheProv>>

(* The joiner: wg.Wait(); close(resultCh). *)
Joiner(l) ==
    /\ agg[l].state = "running"
    /\ ~agg[l].closed
    /\ \A p \in Providers : workers[l][p].pc = "done"
    /\ agg' = [agg EXCEPT ![l].closed = TRUE]
    /\ UNCHANGED <<unit, rt, config, hpc, req, callerDone, response, cache, workers, trace, cacheProv>>

(* One turn of the drain loop, lines 225-238. *)
Tally(result, pr) ==
    IF pr.err # NoErr
    THEN [result EXCEPT !.ProvidersFailed = @ + 1,
                        !.FailedProviders = Append(@, pr.provider)]
    ELSE [result EXCEPT !.ProvidersSucceeded = @ + 1,
                        !.Flights = @ \o pr.flights]

Drain(l) ==
    /\ agg[l].state = "running"
    /\ Len(agg[l].resultCh) > 0
    /\ agg' = [agg EXCEPT ![l].result = Tally(@, Head(agg[l].resultCh)),
                          ![l].resultCh = Tail(@)]
    /\ UNCHANGED <<unit, rt, config, hpc, req, callerDone, response, cache, workers, trace, cacheProv>>

SearchErrorWhenAllFailed(result, ctxState) ==
    IF result.ProvidersQueried > 0 /\ result.ProvidersFailed = result.ProvidersQueried
    THEN "all providers failed" ELSE NoErr

(* The error Aggregator.Search returns beside its result, line 240. *)
SearchError(result, ctxState) == NoErr

(* The drain loop ends on the closed, empty channel; Search returns. *)
SearchReturns(l) ==
    /\ agg[l].state = "running"
    /\ agg[l].closed
    /\ Len(agg[l].resultCh) = 0
    /\ agg' = [agg EXCEPT ![l].state = "returned",
                          ![l].err = SearchError(agg[l].result, agg[l].ctx)]
    /\ UNCHANGED <<unit, rt, config, hpc, req, callerDone, response, cache, workers, trace, cacheProv>>

(***************************************************************************)
(* The cache.  RedisCache keys an entry by generateKey(req) and holds the  *)
(* marshalled list; the backend may fail any call and drops an entry when  *)
(* its TTL runs out.  NoOpCache misses always and stores nothing.          *)
(***************************************************************************)
HasEntry(key) == \E e \in cache : e.key = key
EntryOf(key) == CHOOSE e \in cache : e.key = key
ProvOf(key) == CHOOSE e \in cacheProv : e.key = key

(* Cache.Get: the flights and whether they were found. *)
CacheGet(r, backendOk) ==
    IF config.CacheEnabled /\ backendOk /\ HasEntry(generateKey(r))
    THEN [found |-> TRUE, flights |-> UnmarshalFlights(EntryOf(generateKey(r)).data)]
    ELSE [found |-> FALSE, flights |-> <<>>]

(* Cache.Set: the backend's content afterwards. *)
CacheSet(r, flights, backendOk) ==
    IF config.CacheEnabled /\ backendOk
    THEN {e \in cache : e.key # generateKey(r)}
            \cup {[key |-> generateKey(r), data |-> MarshalFlights(flights)]}
    ELSE cache

(* The backend drops an entry whose TTL ran out. *)
Expire ==
    /\ \E e \in cache :
          /\ cache' = cache \ {e}
          /\ cacheProv' = {x \in cacheProv : x.key # e.key}
    /\ UNCHANGED <<unit, rt, config, hpc, req, callerDone, response, agg, workers, trace>>

(***************************************************************************)
(* SearchHandler.Search.                                                   *)
(***************************************************************************)
ErrorResponse(status, tag, msg) ==
    [status |-> status, kind |-> "error", error |-> tag, message |-> msg]

Metadata(total, queried, succeeded, failed, failedProviders, hit) ==
    [TotalResults |-> total, ProvidersQueried |-> queried,
     ProvidersSucceeded |-> succeeded, ProvidersFailed |-> failed,
     FailedProviders |-> failedProviders, CacheHit |-> hit]

SearchResponse(r, meta, flights) ==
    [status |-> StatusOK, kind |-> "oneway", criteria |-> r, metadata |-> meta,
     flights |-> flights]

(* The response to a cache hit, lines 49-65. *)
HitAnswer(r, filtered) ==
    SearchResponse(r,
        Metadata(Len(filtered), CacheHitProviders, CacheHitProviders, 0, <<>>, TRUE),
        filtered)

HitResponse(r, cachedFlights) ==
    HitAnswer(r, Apply(cachedFlights, r.Filters, r.SortBy, r.SortOrder))

(* The response to a miss, lines 81-95. *)
MissAnswer(r, result, filtered) ==
    SearchResponse(r,
        Metadata(Len(filtered), result.ProvidersQueried, result.ProvidersSucceeded,
                 result.ProvidersFailed, result.FailedProviders, FALSE),
        filtered)

MissResponse(r, result) ==
    MissAnswer(r, result, Apply(result.Flights, r.Filters, r.SortBy, r.SortOrder))

StoredFlightsFiltered(result) == Apply(result.Flights, req.Filters, req.SortBy, req.SortOrder)

(* The list handed to cache.Set, line 80. *)
StoredFlights(result) == result.Flights

(* A request arrives: c.Bind, then req.Validate, lines 31-46. *)
Receive(body) ==
    /\ hpc \in {"idle", "responded"}
    /\ callerDone' = FALSE
    /\ agg' = [l \in Legs |-> IdleLeg]
    /\ workers' = [l \in Legs |-> [p \in AllProviders |-> IdleWorker]]
    /\ trace' = << >>
    /\ rt' = IdleRt
    /\ UNCHANGED unit
    /\ IF body = Malformed
       THEN /\ response' = ErrorResponse(StatusBadRequest, "invalid_request",
                                         "Failed to parse request body")
            /\ req' = NoRequest
            /\ hpc' = "responded"
       ELSE IF Validate(body).err # NoErr
       THEN /\ response' = ErrorResponse(StatusBadRequest, "validation_error",
                                         Validate(body).err)
            /\ req' = Validate(body).req
            /\ hpc' = "responded"
       ELSE /\ response' = NoResponse
            /\ req' = Validate(body).req
            /\ hpc' = "probe"
    /\ UNCHANGED <<config, cache, cacheProv>>

ProbeHitRewrites(backendOk) ==
    LET got == CacheGet(req, backendOk) IN
    /\ hpc = "probe"
    /\ got.found
    /\ response' = HitResponse(req, got.flights)
    /\ cache' = CacheSet(req, got.flights, backendOk)
    /\ trace' = trace \o <<"get", "set", "apply", "respond">>
    /\ hpc' = "responded"
    /\ UNCHANGED <<unit, rt, config, req, callerDone, agg, workers, cacheProv>>

(* The cache probe, lines 48-65: a hit is answered at once. *)
ProbeHit(backendOk) ==
    LET got == CacheGet(req, backendOk) IN
    /\ hpc = "probe"
    /\ got.found
    /\ response' = HitResponse(req, got.flights)
    /\ trace' = trace \o <<"get", "apply", "respond">>
    /\ hpc' = "responded"
    /\ UNCHANGED <<unit, rt, config, req, callerDone, cache, agg, workers, cacheProv>>

ProbeMissBackendErrorFatal(backendOk) ==
    LET got == CacheGet(req, backendOk)
        parentErr == IF callerDone THEN Canceled ELSE NoErr
    IN
    /\ hpc = "probe"
    /\ ~got.found
    /\ ~IsRoundTrip(req)
    /\ IF config.CacheEnabled /\ ~backendOk
       THEN /\ response' = ErrorResponse(StatusInternalServerError, "cache_error",
                                         "cache unavailable")
            /\ trace' = trace \o <<"get", "respond">>
            /\ hpc' = "responded"
            /\ UNCHANGED <<agg, workers>>
       ELSE /\ agg' = [agg EXCEPT !["out"] = StartedLeg(req, parentErr)]
            /\ workers' = [workers EXCEPT !["out"] = LaunchedWorkers(parentErr)]
            /\ trace' = trace \o <<"get", "search">>
            /\ hpc' = "search"
            /\ response' = response
    /\ UNCHANGED <<unit, rt, config, req, callerDone, cache, cacheProv>>

(* The cache probe misses and a one-way request goes to Aggregator.Search, line 71. *)
ProbeMiss(backendOk) ==
    LET got == CacheGet(req, backendOk)
        parentErr == IF callerDone THEN Canceled ELSE NoErr
    IN
    /\ hpc = "probe"
    /\ ~got.found
    /\ ~IsRoundTrip(req)
    /\ agg' = [agg EXCEPT !["out"] = StartedLeg(req, parentErr)]
    /\ workers' = [workers EXCEPT !["out"] = LaunchedWorkers(parentErr)]
    /\ trace' = trace \o <<"get", "search">>
    /\ hpc' = "search"
    /\ UNCHANGED <<unit, rt, config, req, callerDone, response, cache, cacheProv>>

(* Aggregator.Search has returned to the handler, lines 71-78. *)
SearchDone ==
    /\ hpc = "search"
    /\ agg["out"].state = "returned"
    /\ trace' = Append(trace, "returned")
    /\ IF agg["out"].err # NoErr
       THEN /\ response' = ErrorResponse(StatusInternalServerError, "search_error",
                                         agg["out"].err)
            /\ hpc' = "responded"
       ELSE /\ response' = response
            /\ hpc' = "store"
    /\ UNCHANGED <<unit, rt, config, req, callerDone, cache, agg, workers, cacheProv>>

(* _ = h.cache.Set(ctx, req, result.Flights), line 80. *)
Store(backendOk) ==
    /\ hpc = "store"
    /\ cache' = CacheSet(req, StoredFlights(agg["out"].result), backendOk)
    /\ cacheProv' =
         IF ~(config.CacheEnabled /\ backendOk) THEN cacheProv
         ELSE {x \in cacheProv : x.key # generateKey(req)}
                 \cup {[key |-> generateKey(req), by |-> req,
                        list |-> agg["out"].result.Flights,
                        failed |-> agg["out"].result.ProvidersFailed]}
    /\ trace' = Append(trace, "set")
    /\ hpc' = "filter"
    /\ UNCHANGED <<unit, rt, config, req, callerDone, response, agg, workers>>

(* filter.Apply and the 200 response, lines 81-95. *)
Respond ==
    /\ hpc = "filter"
    /\ response' = MissResponse(req, agg["out"].result)
    /\ trace' = trace \o <<"apply", "respond">>
    /\ hpc' = "responded"
    /\ UNCHANGED <<unit, rt, config, req, callerDone, cache, agg, workers, cacheProv>>

(***************************************************************************)
(* The next-state relation.                                                *)
(***************************************************************************)
WorkerStep(l, p) ==
    \/ WaitToken(l, p)
    \/ WaitWouldExceedDeadline(l, p)
    \/ WaitCancelled(l, p)
    \/ LoopTop(l, p)
    \/ BackoffElapsed(l, p)
    \/ BackoffCancelled(l, p)
    \/ CallProvider(l, p)
    \/ SearchSucceeds(l, p)
    \/ SearchFailsTransiently(l, p)
    \/ SearchCancelled(l, p)
    \/ Emit(l, p)

AggregatorStep(l) ==
    \/ \E p \in AllProviders : WorkerStep(l, p)
    \/ Joiner(l)
    \/ Drain(l)
    \/ SearchReturns(l)
    \/ DeadlineFires(l)

Next ==
    \/ \E body \in OneWayBodies \cup {Malformed} : Receive(body)
    \/ \E ok \in BOOLEAN : ProbeHit(ok)
    \/ \E ok \in BOOLEAN : ProbeMiss(ok)
    \/ AggregatorStep("out")
    \/ SearchDone
    \/ \E ok \in BOOLEAN : Store(ok)
    \/ Respond
    \/ CallerCancel
    \/ Expire

Spec == Init /\ [][Next]_vars

(***************************************************************************)
(* One Aggregator.Search invocation on its own, from the moment its        *)
(* goroutines are launched (line 217) under a caller context that is       *)
(* alive or already cancelled.                                             *)
(***************************************************************************)
AggRequest == WithDefaults(Request("CGK", "DPS", "2025-12-15", Nil, 0, "", Nil, "", ""))

InitAgg ==
    /\ config \in {c \in Configs(MaxProviders) : ~c.CacheEnabled}
    /\ unitIn = << >>
    /\ unitOut = << >>
    /\ rt = IdleRt
    /\ hpc = "search"
    /\ req = AggRequest
    /\ callerDone \in BOOLEAN
    /\ response = NoResponse
    /\ cache = {}
    /\ agg = [l \in Legs |->
                IF l = "out"
                THEN StartedLeg(AggRequest, IF callerDone THEN Canceled ELSE NoErr)
                ELSE IdleLeg]
    /\ workers = [l \in Legs |->
                    IF l = "out"
                    THEN LaunchedWorkers(IF callerDone THEN Canceled ELSE NoErr)
                    ELSE [p \in AllProviders |-> IdleWorker]]
    /\ trace = <<"get", "search">>
    /\ cacheProv = {}

NextAgg ==
    \/ AggregatorStep("out")
    \/ CallerCancel

AggSpec == InitAgg /\ [][NextAgg]_vars

(***************************************************************************)
(* Scheduling.  The Go runtime runs every runnable goroutine, and the      *)
(* searchCtx timer fires: a step of the program that stays possible is     *)
(* taken.  How long a token, a backoff or a provider's latency takes is    *)
(* not promised: the timer branches carry no fairness.                     *)
(***************************************************************************)
GoroutineStep(l, p) ==
    \/ WaitCancelled(l, p)
    \/ LoopTop(l, p)
    \/ BackoffCancelled(l, p)
    \/ CallProvider(l, p)
    \/ SearchCancelled(l, p)
    \/ Emit(l, p)

MainStep(l) ==
    \/ Joiner(l)
    \/ Drain(l)
    \/ SearchReturns(l)

FairAggSpec ==
    /\ AggSpec
    /\ WF_vars(DeadlineFires("out"))
    /\ WF_vars(MainStep("out"))
    /\ \A p \in AllProviders : WF_vars(GoroutineStep("out", p))

(***************************************************************************)
(* Aggregator.SearchRoundTrip, lines 279-340, and handleRoundTrip.         *)
(* SearchRoundTrip derives a context with timeout 2*Timeout, starts one    *)
(* goroutine per leg, each calling Aggregator.Search under that context    *)
(* (so each leg derives its own searchCtx with timeout Timeout, line       *)
(* 178), receives two searchResults and settles what it returns.           *)
(***************************************************************************)
RtProviders == 1

RoundTripBodies ==
    {Request("CGK", "DPS", "2025-12-15", Ptr("2025-12-20"), 0, "", Nil, "", ""),
     Request("CGK", "DPS", "2025-12-15", Ptr("2025-12-20"), 2, "economy", Ptr(DirectOnly),
             "price", "desc")}

(* The request each leg searches, lines 299-311. *)
LegRequest(l, r) ==
    IF l = "out" THEN r
    ELSE Request(r.Destination, r.Origin, Deref(r.ReturnDate), Nil, r.Passengers,
                 r.CabinClass, r.Filters, r.SortBy, r.SortOrder)

RtFrame == <<unit, config, hpc, req, callerDone, response, cache, trace, cacheProv>>

(* The cache probe misses and a round-trip request goes to handleRoundTrip,
   lines 67-69 and 98-101; SearchRoundTrip derives its context, line 285. *)
ProbeMissRoundTrip(backendOk) ==
    LET got == CacheGet(req, backendOk) IN
    /\ hpc = "probe"
    /\ ~got.found
    /\ IsRoundTrip(req)
    /\ rt' = [IdleRt EXCEPT !.state = "running",
                            !.ctx = IF callerDone THEN Canceled ELSE "alive"]
    /\ trace' = trace \o <<"get", "roundtrip">>
    /\ hpc' = "roundtrip"
    /\ UNCHANGED <<unit, config, req, callerDone, response, cache, agg, workers, cacheProv>>

(* A leg's goroutine starts and enters Aggregator.Search, lines 296-297 and 310-311. *)
StartLeg(l) ==
    LET parentErr == IF rt.ctx = "alive" THEN NoErr ELSE rt.ctx IN
    /\ rt.state = "running"
    /\ agg[l].state = "off"
    /\ agg' = [agg EXCEPT ![l] = StartedLeg(LegRequest(l, req), parentErr)]
    /\ workers' = [workers EXCEPT ![l] = LaunchedWorkers(parentErr)]
    /\ UNCHANGED <<rt, RtFrame>>

(* The timer of the round-trip context fires: it and every context under it end. *)
RtDeadlineFires ==
    /\ rt.state = "running"
    /\ rt.ctx = "alive"
    /\ rt' = [rt EXCEPT !.ctx = DeadlineExceeded]
    /\ agg' = [l \in Legs |->
                 IF agg[l].state = "running" /\ agg[l].ctx = "alive"
                 THEN [agg[l] EXCEPT !.ctx = DeadlineExceeded] ELSE agg[l]]
    /\ UNCHANGED <<workers, RtFrame>>

(* A leg's goroutine sends what Search returned, lines 297 and 311. *)
LegSends(l) ==
    /\ rt.state = "running"
    /\ agg[l].state = "returned"
    /\ l \notin rt.sent
    /\ rt' = [rt EXCEPT !.sent = @ \cup {l},
                        !.resultCh = Append(@, [result |-> Ptr(agg[l].result),
                                                err |-> agg[l].err,
                                                isReturn |-> l = "ret"])]
    /\ UNCHANGED <<agg, workers, RtFrame>>

RtReceiveInArrivalOrder ==
    LET sr == Head(rt.resultCh) IN
    /\ rt.state = "running"
    /\ Len(rt.got) < 2
    /\ Len(rt.resultCh) > 0
    /\ rt' = IF Len(rt.got) = 1
             THEN [rt EXCEPT !.resultCh = Tail(@), !.got = Append(@, "ret"),
                             !.returnResult = sr.result, !.returnErr = sr.err]
             ELSE [rt EXCEPT !.resultCh = Tail(@), !.got = Append(@, "out"),
                             !.outbound = sr.result, !.outboundErr = sr.err]
    /\ UNCHANGED <<agg, workers, RtFrame>>

(* One turn of the receive loop, lines 317-326. *)
RtReceive ==
    LET sr == Head(rt.resultCh) IN
    /\ rt.state = "running"
    /\ Len(rt.got) < 2
    /\ Len(rt.resultCh) > 0
    /\ rt' = IF sr.isReturn
             THEN [rt EXCEPT !.resultCh = Tail(@), !.got = Append(@, "ret"),
                             !.returnResult = sr.result, !.returnErr = sr.err]
             ELSE [rt EXCEPT !.resultCh = Tail(@), !.got = Append(@, "out"),
                             !.outbound = sr.result, !.outboundErr = sr.err]
    /\ UNCHANGED <<agg, workers, RtFrame>>

RtOutcomeKeepsReturn(outbound, outboundErr, returnResult, returnErr) ==
    IF outboundErr # NoErr
    THEN [outbound |-> Nil, returnResult |-> Nil, err |-> outboundErr]
    ELSE [outbound |-> outbound, returnResult |-> returnResult, err |-> returnErr]

(* What SearchRoundTrip returns, lines 328-339. *)
RtOutcome(outbound, outboundErr, returnResult, returnErr) ==
    IF outboundErr # NoErr
    THEN [outbound |-> Nil, returnResult |-> Nil, err |-> outboundErr]
    ELSE IF returnErr # NoErr
    THEN [outbound |-> outbound, returnResult |-> Nil, err |-> NoErr]
    ELSE [outbound |-> outbound, returnResult |-> returnResult, err |-> NoErr]

(* The loop has received twice; SearchRoundTrip returns. *)
RtReturns ==
    /\ rt.state = "running"
    /\ Len(rt.got) = 2
    /\ rt' = [rt EXCEPT !.state = "returned",
                        !.ret = RtOutcome(rt.outbound, rt.outboundErr,
                                          rt.returnResult, rt.returnErr)]
    /\ UNCHANGED <<agg, workers, RtFrame>>

RECURSIVE uniqueStrings(_)
uniqueStrings(s) ==
    IF Len(s) = 0 THEN << >>
    ELSE LET front == SubSeq(s, 1, Len(s) - 1)
             last == s[Len(s)]
         IN IF \E i \in 1..Len(front) : front[i] = last
            THEN uniqueStrings(front)
            ELSE Append(uniqueStrings(front), last)

(* The 200 response of handleRoundTrip, lines 110-146. *)
RoundTripAnswer(r, outbound, returnResult, outboundFiltered, returnFiltered) ==
    LET none == EmptyResult(0)
        back == IF returnResult # Nil THEN Deref(returnResult) ELSE none
    IN [status |-> StatusOK, kind |-> "roundtrip", criteria |-> r,
        metadata |->
            Metadata(Len(outboundFiltered) + Len(returnFiltered),
                     outbound.ProvidersQueried + back.ProvidersQueried,
                     outbound.ProvidersSucceeded + back.ProvidersSucceeded,
                     outbound.ProvidersFailed + back.ProvidersFailed,
                     uniqueStrings(outbound.FailedProviders \o back.FailedProviders),
                     FALSE),
        outboundFlights |-> outboundFiltered,
        returnFlights |-> returnFiltered]

RoundTripResponse(r, outbound, returnResult) ==
    RoundTripAnswer(r, outbound, returnResult,
        Apply(outbound.Flights, r.Filters, r.SortBy, r.SortOrder),
        IF returnResult # Nil
        THEN Apply(Deref(returnResult).Flights, r.Filters, r.SortBy, r.SortOrder)
        ELSE << >>)

(* SearchRoundTrip has returned to handleRoundTrip, lines 101-146. *)
RoundTripDoneStores ==
    /\ hpc = "roundtrip"
    /\ rt.state = "returned"
    /\ response' =
         IF rt.ret.err # NoErr
         THEN ErrorResponse(StatusInternalServerError, "search_error", rt.ret.err)
         ELSE RoundTripResponse(req, Deref(rt.ret.outbound), rt.ret.returnResult)
    /\ cache' = IF rt.ret.err # NoErr THEN cache
                ELSE CacheSet(req, Deref(rt.ret.outbound).Flights, TRUE)
    /\ cacheProv' =
         IF rt.ret.err # NoErr \/ ~config.CacheEnabled THEN cacheProv
         ELSE {x \in cacheProv : x.key # generateKey(req)}
                 \cup {[key |-> generateKey(req), by |-> req,
                        list |-> Deref(rt.ret.outbound).Flights,
                        failed |-> Deref(rt.ret.outbound).ProvidersFailed]}
    /\ trace' = trace \o (IF rt.ret.err # NoErr THEN <<"returned", "respond">>
                          ELSE <<"returned", "set", "apply", "respond">>)
    /\ hpc' = "responded"
    /\ UNCHANGED <<unit, rt, config, req, callerDone, agg, workers>>

RoundTripDone ==
    /\ hpc = "roundtrip"
    /\ rt.state = "returned"
    /\ response' =
         IF rt.ret.err # NoErr
         THEN ErrorResponse(StatusInternalServerError, "search_error", rt.ret.err)
         ELSE RoundTripResponse(req, Deref(rt.ret.outbound), rt.ret.returnResult)
    /\ trace' = trace \o (IF rt.ret.err # NoErr THEN <<"returned", "respond">>
                          ELSE <<"returned", "apply", "respond">>)
    /\ hpc' = "responded"
    /\ UNCHANGED <<unit, rt, config, req, callerDone, cache, agg, workers, cacheProv>>

RtInit ==
    /\ config \in {c \in Configs(RtProviders) : ~c.CacheEnabled}
    /\ unitIn = << >>
    /\ unitOut = << >>
    /\ rt = IdleRt
    /\ hpc = "idle"
    /\ req = NoRequest
    /\ callerDone = FALSE
    /\ response = NoResponse
    /\ cache = {}
    /\ agg = [l \in Legs |-> IdleLeg]
    /\ workers = [l \in Legs |-> [p \in AllProviders |-> IdleWorker]]
    /\ trace = << >>
    /\ cacheProv = {}

RtNext ==
    \/ \E body \in RoundTripBodies : Receive(body)
    \/ \E ok \in BOOLEAN : ProbeMissRoundTrip(ok)
    \/ \E l \in Legs : StartLeg(l)
    \/ \E l \in Legs : AggregatorStep(l)
    \/ RtDeadlineFires
    \/ \E l \in Legs : LegSends(l)
    \/ RtReceive
    \/ RtReturns
    \/ RoundTripDone
    \/ CallerCancel

RtSpec == RtInit /\ [][RtNext]_vars

(***************************************************************************)
(* The receive loop and the outcome of SearchRoundTrip on their own, for   *)
(* every pair of (result, err) the signature of Aggregator.Search allows   *)
(* the two legs to send, in either order of arrival.                       *)
(***************************************************************************)
ErrLegFailed == "search failed"

LegResults(l, r) ==
    {[EmptyResult(1) EXCEPT !.ProvidersSucceeded = 1,
                            !.Flights = ProviderFlights("airasia", LegRequest(l, r))],
     [EmptyResult(1) EXCEPT !.ProvidersFailed = 1, !.FailedProviders = <<"airasia">>]}

LegOutcomes(l, r) ==
    {[result |-> Ptr(res), err |-> NoErr] : res \in LegResults(l, r)}
       \cup {[result |-> Nil, err |-> ErrLegFailed]}
       \cup {[result |-> Ptr(res), err |-> ErrLegFailed] : res \in LegResults(l, r)}

Sent(l, o) == [result |-> o.result, err |-> o.err, isReturn |-> l = "ret"]

CollectInit ==
    /\ config = [providers |-> <<"airasia">>, MaxRetries |-> 0, CacheEnabled |-> FALSE]
    /\ req \in {Validate(b).req : b \in RoundTripBodies}
    /\ unitIn \in [fn : {"collect"}, out : LegOutcomes("out", req),
                   ret : LegOutcomes("ret", req)]
    /\ unitOut = << >>
    /\ rt \in {[IdleRt EXCEPT !.state = "running", !.sent = Legs, !.resultCh = ch] :
                  ch \in {<<Sent("out", unitIn.out), Sent("ret", unitIn.ret)>>,
                          <<Sent("ret", unitIn.ret), Sent("out", unitIn.out)>>}}
    /\ hpc = "roundtrip"
    /\ callerDone = FALSE
    /\ response = NoResponse
    /\ cache = {}
    /\ agg = [l \in Legs |-> IdleLeg]
    /\ workers = [l \in Legs |-> [p \in AllProviders |-> IdleWorker]]
    /\ trace = <<"get", "roundtrip">>
    /\ cacheProv = {}

CollectNext ==
    \/ RtReceive
    \/ RtReturns
    \/ RoundTripDone

CollectSpec == CollectInit /\ [][CollectNext]_vars

(***************************************************************************)
(* generateKey applied on its own to a pair of requests.                   *)
(***************************************************************************)
KeyRequests ==
    {Request(o, d, dd, rd, n, cc, so[1], so[2], so[3]) :
        o \in {"CGK", "cgk"}, d \in {"DPS", "SUB"},
        dd \in {"2025-12-15", "2025-12-16"},
        rd \in {Nil, Ptr(""), Ptr("2025-12-20")},
        n \in {1, 2}, cc \in {"economy", "business"},
        so \in {<<Nil, "best_value", "asc">>, <<Ptr(DirectOnly), "price", "desc">>}}

KeyInit ==
    /\ config = [providers |-> << >>, MaxRetries |-> 0, CacheEnabled |-> FALSE]
    /\ unitIn \in [fn : {"generateKey"}, a : KeyRequests, b : KeyRequests]
    /\ unitOut = << >>
    /\ rt = IdleRt
    /\ hpc = "idle"
    /\ req = NoRequest
    /\ callerDone = FALSE
    /\ response = NoResponse
    /\ cache = {}
    /\ agg = [l \in Legs |-> IdleLeg]
    /\ workers = [l \in Legs |-> [p \in AllProviders |-> IdleWorker]]
    /\ trace = << >>
    /\ cacheProv = {}

KeyResult(r) == [data |-> MarshalKeyData(KeyData(r)), key |-> generateKey(r)]

ApplyGenerateKey ==
    /\ unitIn # << >>
    /\ unitIn.fn = "generateKey"
    /\ unitOut = << >>
    /\ unitOut' = <<KeyResult(unitIn.a), KeyResult(unitIn.b)>>
    /\ UNCHANGED <<unitIn, rt, config, hpc, req, callerDone, response, cache, agg, workers,
                   trace, cacheProv>>

KeyNext == ApplyGenerateKey

KeySpec == KeyInit /\ [][KeyNext]_vars

(***************************************************************************)
(* Shorthands for the properties.                                          *)
(***************************************************************************)
Range(seq) == {seq[i] : i \in 1..Len(seq)}
Count(seq, x) == Cardinality({i \in 1..Len(seq) : seq[i] = x})
FlightsOf(flights, p) == LET Test(f) == f.Provider = p IN SelectSeq(flights, Test)
Out == agg["out"]
Worker(p) == workers["out"][p]
Responded200 == hpc = "responded" /\ response.status = StatusOK

(***************************************************************************)
(* filter.Apply applied on its own, as the handler applies it to an        *)
(* aggregation's flights: the three stages and the response built from     *)
(* the outcome.                                                            *)
(***************************************************************************)
MaxListLen == 3
LongListLen == MaxInsertion + 1

FlightPool ==
    {f \in UNION {Range(Fixture(p)) : p \in AllProviders} : f.DepAirport = "CGK"}

Injective(s) == \A i, j \in 1..Len(s) : s[i] = s[j] => i = j

ShortLists ==
    {s \in UNION {[1..n -> FlightPool] : n \in 0..MaxListLen} : Injective(s)}

(* Thirteen offers of one airline: one with a stop, twelve direct. *)
LongList(stopAt) ==
    [i \in 1..LongListLen |->
        [Offer("QZ", "airasia", "QZ", Time(i * 10, 420),
               Time(i * 10 + (IF i = stopAt THEN 150 ELSE 100), 480),
               IF i = stopAt THEN 150 ELSE 100,
               IF i = stopAt THEN 1 ELSE 0,
               IF i = stopAt THEN 9 ELSE 1 + (i % 3))
         EXCEPT !.ID = "QZ" \o ToString(i)]]

FlightLists == ShortLists \cup {LongList(1), LongList(LongListLen)}

RejectAll == Filters(Nil, Ptr(0), Nil, <<>>, Nil, Nil, Nil, Nil, Nil)

FilterChoices ==
    {Nil,
     Ptr(DirectOnly),
     Ptr(RejectAll),
     Ptr(Filters(Ptr(5), Ptr(9), Nil, <<>>, Nil, Nil, Nil, Nil, Nil)),
     Ptr(Filters(Nil, Nil, Nil, <<"qz", "GA">>, Nil, Nil, Nil, Nil, Nil)),
     Ptr(Filters(Nil, Nil, Nil, <<>>, Ptr("08:00"), Ptr("12:00"), Nil, Nil, Nil)),
     Ptr(Filters(Nil, Nil, Nil, <<>>, Nil, Nil, Ptr("06:00"), Ptr("12:00"), Nil)),
     Ptr(Filters(Nil, Nil, Nil, <<>>, Ptr("noon"), Ptr("25:00"), Nil, Ptr("late"), Ptr(115)))}

SortByChoices ==
    {"price", "duration", "departure", "arrival", "best_value", "stops", "Stops",
     "Best_Value", "cheapest"}

SortOrderChoices == {"asc", "desc", "DESC"}

(* What Aggregator.Search handed back beside the flights. *)
AggregatedResult(flights) ==
    [EmptyResult(4) EXCEPT !.Flights = flights, !.ProvidersSucceeded = 3,
                           !.ProvidersFailed = 1, !.FailedProviders = <<"lionair">>]

ApplyRequest(in) ==
    Request("CGK", "DPS", "2025-12-15", Nil, 1, "economy", in.filters, in.sortBy,
            in.sortOrder)

ApplyInit ==
    /\ config = [providers |-> ProviderOrder, MaxRetries |-> 0, CacheEnabled |-> FALSE]
    /\ unitIn \in [fn : {"Apply"}, flights : FlightLists, filters : FilterChoices,
                   sortBy : SortByChoices, sortOrder : SortOrderChoices]
    /\ unitOut = << >>
    /\ rt = IdleRt
    /\ hpc = "idle"
    /\ req = NoRequest
    /\ callerDone = FALSE
    /\ response = NoResponse
    /\ cache = {}
    /\ agg = [l \in Legs |-> IdleLeg]
    /\ workers = [l \in Legs |-> [p \in AllProviders |-> IdleWorker]]
    /\ trace = << >>
    /\ cacheProv = {}

ApplyApply ==
    LET filtered == applyFilters(unitIn.flights, unitIn.filters)
        ranked == IF unitIn.sortBy = "best_value" THEN CalculateScores(filtered)
                  ELSE filtered
    IN
    /\ unitIn # << >>
    /\ unitIn.fn = "Apply"
    /\ unitOut = << >>
    /\ unitOut' = [filtered |-> filtered,
                   ranked |-> ranked,
                   sorted |-> applySort(ranked, unitIn.sortBy, unitIn.sortOrder),
                   flights |-> Apply(unitIn.flights, unitIn.filters, unitIn.sortBy,
                                     unitIn.sortOrder),
                   response |-> MissResponse(ApplyRequest(unitIn),
                                             AggregatedResult(unitIn.flights))]
    /\ UNCHANGED <<unitIn, rt, config, hpc, req, callerDone, response, cache, agg, workers,
                   trace, cacheProv>>

ApplyNext == ApplyApply

ApplySpec == ApplyInit /\ [][ApplyNext]_vars

(***************************************************************************)
(* The time/zone resolver and the provider adapters.  An instant is        *)
(* [utc, off]: minutes since 2025-12-15T00:00Z and the offset of the zone  *)
(* it is presented in.  A provider timestamp string is [fmt, wall, off]:   *)
(* its layout, the wall clock it spells (minutes since 2025-12-15T00:00)   *)
(* and the offset it spells, if its layout has one.                        *)
(***************************************************************************)
Stamp(fmt, wall, off) == [fmt |-> fmt, wall |-> wall, off |-> off]

ToUpper(s) ==
    CASE s = "cgk" -> "CGK"
      [] s = "dps" -> "DPS"
      [] s = "wib" -> "WIB"
      [] s = "wita" -> "WITA"
      [] s = "wit" -> "WIT"
      [] s = "utc" -> "UTC"
      [] OTHER -> s

GetTimezoneByAirport(code) ==
    CASE ToUpper(code) \in {"CGK", "SUB"} -> "WIB"
      [] ToUpper(code) \in {"DPS", "UPG"} -> "WITA"
      [] ToUpper(code) \in {"DJJ"} -> "WIT"
      [] OTHER -> "WIB"

(* The offset, in minutes, of the fixed zone of an airport. *)
GetLocationByAirport(code) ==
    CASE GetTimezoneByAirport(code) = "WITA" -> 8 * 60
      [] GetTimezoneByAirport(code) = "WIT" -> 9 * 60
      [] OTHER -> 7 * 60

(* time.LoadLocation knows "UTC" in every build; the other names of the   *)
(* model are no zone names and fall back to WIB.                          *)
GetLocationByName(name) ==
    CASE ToUpper(name) \in {"WITA", "UTC+8"} -> 8 * 60
      [] ToUpper(name) \in {"WIT", "UTC+9"} -> 9 * 60
      [] ToUpper(name) \in {"WIB", "UTC+7"} -> 7 * 60
      [] name = "UTC" -> 0
      [] OTHER -> 7 * 60

ParseTimeWithOffsetHintFirst(ts, tzName) ==
    CASE ts.fmt \in {"rfc3339", "nocolon"} -> [ok |-> TRUE, t |-> Time(ts.wall - ts.off, ts.off)]
      [] ts.fmt = "zulu" -> [ok |-> TRUE, t |-> Time(ts.wall, 0)]
      [] ts.fmt \in {"naiveTsec", "naiveSpSec", "naiveT", "naiveSp"} /\ tzName # "" ->
            [ok |-> TRUE,
             t |-> Time(ts.wall - GetLocationByName(tzName), GetLocationByName(tzName))]
      [] ts.fmt \in {"naiveTsec", "naiveSpSec"} -> [ok |-> TRUE, t |-> Time(ts.wall, 0)]
      [] OTHER -> [ok |-> FALSE, t |-> Time(0, 0)]

(* The first list of layouts goes through time.Parse, which reads a       *)
(* string without an offset in UTC; it holds the two naive layouts with   *)
(* seconds.  Only the second list is read in the zone of the hint.        *)
ParseTimeWithOffset(ts, tzName) ==
    CASE ts.fmt \in {"rfc3339", "nocolon"} -> [ok |-> TRUE, t |-> Time(ts.wall - ts.off, ts.off)]
      [] ts.fmt = "zulu" -> [ok |-> TRUE, t |-> Time(ts.wall, 0)]
      [] ts.fmt \in {"naiveTsec", "naiveSpSec"} -> [ok |-> TRUE, t |-> Time(ts.wall, 0)]
      [] ts.fmt \in {"naiveT", "naiveSp"} /\ tzName # "" ->
            [ok |-> TRUE,
             t |-> Time(ts.wall - GetLocationByName(tzName), GetLocationByName(tzName))]
      [] OTHER -> [ok |-> FALSE, t |-> Time(0, 0)]

ConvertToTimezone(t, airportCode) == Time(t.utc, GetLocationByAirport(airportCode))

(* t.Year(), t.Month(), t.Day(): the day of t in the zone it is presented *)
(* in, counted from 2025-12-15.                                           *)
CalendarDay(t) == (t.utc + t.off) \div 1440

(* time.Parse("2006-01-02", s). *)
ParseDate(s) ==
    CASE s = "2025-12-14" -> [ok |-> TRUE, day |-> 0 - 1]
      [] s = "2025-12-15" -> [ok |-> TRUE, day |-> 0]
      [] s = "2025-12-16" -> [ok |-> TRUE, day |-> 1]
      [] OTHER -> [ok |-> FALSE, day |-> 0]

(* Go's integer / and %: the quotient truncates towards zero and the      *)
(* remainder has the sign of the dividend.                                *)
Quo(a, b) == IF a >= 0 THEN a \div b ELSE 0 - ((0 - a) \div b)

RemFloor(a, b) == a % b

Rem(a, b) == a - b * Quo(a, b)

(* regexp (?:(\d+)h)?\s*(?:(\d+)m)? matched at the start of the string. *)
parseTravelTime(s) ==
    CASE s = "1h 45m" -> 1 * 60 + 45
      [] s = "2h" -> 2 * 60
      [] s = "90m" -> 90
      [] OTHER -> 0

(* The provider's duration field: integer minutes (garuda, lionair),      *)
(* hours in hundredths read through int(math.Round(h * 60)) (airasia),    *)
(* a travel-time string (batikair).                                       *)
TotalMinutesOf(p, d) ==
    CASE p = "airasia" -> RoundDiv(d * 60, 100)
      [] p = "batikair" -> parseTravelTime(d)
      [] OTHER -> d

HintOf(p, o) == IF p = "lionair" THEN o.tz ELSE ""

(* The stop count of the flight: airasia counts its stop list, lionair    *)
(* reads stop_count, and both put 0 for a flight flagged direct; garuda   *)
(* and batikair copy the integer field of the offer.                      *)
StopsOf(p, o) ==
    CASE p = "airasia" -> IF o.direct THEN 0 ELSE Len(o.stopList)
      [] p = "lionair" -> IF o.direct THEN 0 ELSE o.stopCount
      [] OTHER -> o.stopCount

(* One layover per element of the offer's stop list, in its order. *)
LayoversOf(o) == [i \in 1..Len(o.stopList) |-> [Airport |-> o.stopList[i]]]

(* normalize: the instants, the airports and the duration of the flight.  *)
(* lionair leaves the departure in the zone the parse returned.           *)
normalize(p, o) ==
    LET dep == ParseTimeWithOffset(o.depart, HintOf(p, o))
        arr == ParseTimeWithOffset(o.arrive, HintOf(p, o))
        total == TotalMinutesOf(p, o.duration)
    IN IF ~dep.ok \/ ~arr.ok THEN [ok |-> FALSE]
       ELSE [ok |-> TRUE,
             flight |->
                [ID |-> o.id, Provider |-> p,
                 DepAirport |-> o.from, ArrAirport |-> o.to, CabinClass |-> o.class,
                 DepTime |-> IF p = "lionair" THEN dep.t
                             ELSE ConvertToTimezone(dep.t, o.from),
                 DepTimezone |-> GetTimezoneByAirport(o.from),
                 ArrTime |-> ConvertToTimezone(arr.t, o.to),
                 ArrTimezone |-> GetTimezoneByAirport(o.to),
                 Hours |-> Quo(total, 60), Minutes |-> Rem(total, 60),
                 TotalMinutes |-> total,
                 Stops |-> StopsOf(p, o), Layovers |-> LayoversOf(o)]]

SelectedAirportDate(p, o, r) ==
    /\ EqualFold(o.from, r.Origin)
    /\ EqualFold(o.to, r.Destination)
    /\ EqualFold(o.class, r.CabinClass)
    /\ ParseTimeWithOffset(o.depart, HintOf(p, o)).ok
    /\ ParseDate(r.DepartureDate).ok
    /\ CalendarDay(ConvertToTimezone(ParseTimeWithOffset(o.depart, HintOf(p, o)).t, o.from))
          = ParseDate(r.DepartureDate).day
    /\ normalize(p, o).ok

SelectedExactClass(p, o, r) ==
    /\ EqualFold(o.from, r.Origin)
    /\ EqualFold(o.to, r.Destination)
    /\ o.class = r.CabinClass
    /\ ParseTimeWithOffset(o.depart, HintOf(p, o)).ok
    /\ ParseDate(r.DepartureDate).ok
    /\ CalendarDay(ParseTimeWithOffset(o.depart, HintOf(p, o)).t) = ParseDate(r.DepartureDate).day
    /\ normalize(p, o).ok

(* The loop body of each adapter's Search: which offers it appends. *)
Selected(p, o, r) ==
    /\ EqualFold(o.from, r.Origin)
    /\ EqualFold(o.to, r.Destination)
    /\ EqualFold(o.class, r.CabinClass)
    /\ ParseTimeWithOffset(o.depart, HintOf(p, o)).ok
    /\ ParseDate(r.DepartureDate).ok
    /\ CalendarDay(ParseTimeWithOffset(o.depart, HintOf(p, o)).t) = ParseDate(r.DepartureDate).day
    /\ normalize(p, o).ok

RECURSIVE SearchResults(_, _, _)
SearchResults(p, offers, r) ==
    IF offers = << >> THEN << >>
    ELSE (IF Selected(p, Head(offers), r) THEN <<normalize(p, Head(offers)).flight>>
          ELSE << >>) \o SearchResults(p, Tail(offers), r)

RawOffer(id, from, to, class, depart, arrive, tz, duration) ==
    [id |-> id, from |-> from, to |-> to, class |-> class, depart |-> depart,
     arrive |-> arrive, tz |-> tz, duration |-> duration,
     stopCount |-> 0, direct |-> TRUE, stopList |-> << >>]

DepartStamps ==
    {Stamp("rfc3339", 7 * 60, 7 * 60), Stamp("rfc3339", 30, 8 * 60),
     Stamp("rfc3339", 1440 + 7 * 60, 7 * 60), Stamp("nocolon", 7 * 60, 7 * 60),
     Stamp("zulu", 60, 0), Stamp("zulu", 23 * 60, 0),
     Stamp("naiveTsec", 5 * 60 + 30, 0), Stamp("naiveSpSec", 5 * 60 + 30, 0),
     Stamp("naiveT", 5 * 60 + 30, 0), Stamp("naiveSp", 5 * 60 + 30, 0),
     Stamp("naiveT", 23 * 60 + 20, 0), Stamp("bad", 0, 0)}

ArriveStamps ==
    {Stamp("rfc3339", 10 * 60, 8 * 60), Stamp("naiveT", 10 * 60, 0), Stamp("bad", 0, 0)}

ZoneHints(p) == IF p = "lionair" THEN {"", "WIB", "wita", "UTC", "Mars"} ELSE {""}

DurationInputs(p) ==
    CASE p = "airasia" -> {0, 175, 101, 0 - 150, 0 - 1}
      [] p = "batikair" -> {"1h 45m", "2h", "90m", "", "-1h 30m"}
      [] OTHER -> {0, 105, 60, 0 - 90, 0 - 1}

RawOffers(p) ==
    {RawOffer("A", from, "DPS", class, depart, arrive, tz, duration) :
        from \in {"CGK", "cgk", "DPS"}, class \in {"economy", "Economy", "business"},
        depart \in DepartStamps, arrive \in ArriveStamps, tz \in ZoneHints(p),
        duration \in DurationInputs(p)}

(* A well-formed offer of the provider for CGK-DPS on 2025-12-15. *)
RegularOffer(p) ==
    RawOffer("B", "CGK", "DPS", "economy", Stamp("rfc3339", 9 * 60, 7 * 60),
             Stamp("rfc3339", 12 * 60, 8 * 60), "WIB",
             IF p = "batikair" THEN "2h" ELSE IF p = "airasia" THEN 200 ELSE 120)

(* The stop fields a provider's JSON can carry: the integer count, the    *)
(* direct flag and the list of stops, each decoded on its own.            *)
StopCounts == {0 - 1, 0, 1, 2}

StopLists == {<< >>, <<"SUB">>, <<"SUB", "UPG">>}

StopOffers(p) ==
    {[RegularOffer(p) EXCEPT !.id = "A", !.stopCount = c, !.direct = d, !.stopList = l] :
        c \in StopCounts, d \in BOOLEAN, l \in StopLists}

AdapterRequests ==
    {Request("CGK", "DPS", "2025-12-15", Nil, 1, "economy", Nil, "best_value", "asc"),
     Request("cgk", "dps", "2025-12-15", Nil, 1, "ECONOMY", Nil, "best_value", "asc"),
     Request("CGK", "DPS", "2025-12-16", Nil, 1, "economy", Nil, "best_value", "asc"),
     Request("CGK", "DPS", "15/12/2025", Nil, 1, "economy", Nil, "best_value", "asc")}

AdapterInit ==
    /\ config = [providers |-> ProviderOrder, MaxRetries |-> 0, CacheEnabled |-> FALSE]
    /\ \E p \in AllProviders : \E o \in RawOffers(p) \cup StopOffers(p) :
       \E r \in AdapterRequests :
          unitIn = [fn |-> "Search", provider |-> p, offers |-> <<o, RegularOffer(p)>>,
                    req |-> r]
    /\ unitOut = << >>
    /\ rt = IdleRt
    /\ hpc = "idle"
    /\ req = NoRequest
    /\ callerDone = FALSE
    /\ response = NoResponse
    /\ cache = {}
    /\ agg = [l \in Legs |-> IdleLeg]
    /\ workers = [l \in Legs |-> [p \in AllProviders |-> IdleWorker]]
    /\ trace = << >>
    /\ cacheProv = {}

AdapterFrame ==
    UNCHANGED <<unitIn, rt, config, hpc, req, callerDone, response, cache, agg, workers,
                trace, cacheProv>>

(* The latency timer fires first and the provider answers. *)
AdapterAnswers ==
    /\ unitIn # << >> /\ unitIn.fn = "Search" /\ unitOut = << >>
    /\ unitOut' = [flights |-> SearchResults(unitIn.provider, unitIn.offers, unitIn.req),
                   err |-> NoErr]
    /\ AdapterFrame

(* rand.Float64() < 0.1 in the airasia adapter. *)
AdapterFailsTransiently ==
    /\ unitIn # << >> /\ unitIn.fn = "Search" /\ unitOut = << >>
    /\ CanFail(unitIn.provider)
    /\ unitOut' = [flights |-> Nil, err |-> ErrAirAsiaTemporaryFailure]
    /\ AdapterFrame

(* ctx.Done() is taken in the select. *)
AdapterCancelled ==
    /\ unitIn # << >> /\ unitIn.fn = "Search" /\ unitOut = << >>
    /\ \E e \in {DeadlineExceeded, Canceled} :
          unitOut' = [flights |-> Nil, err |-> e]
    /\ AdapterFrame

AdapterNext == AdapterAnswers \/ AdapterFailsTransiently \/ AdapterCancelled

AdapterSpec == AdapterInit /\ [][AdapterNext]_vars

(***************************************************************************)
(* One-way and round-trip requests, one after another, before a cache      *)
(* that is switched on.                                                    *)
(***************************************************************************)
MixedBodies ==
    {Request("CGK", "DPS", "2025-12-15", Nil, 0, "", Nil, "", ""),
     Request("CGK", "DPS", "2025-12-15", Ptr(""), 0, "", Nil, "", ""),
     Request("CGK", "DPS", "2025-12-15", Ptr("2025-12-20"), 0, "", Nil, "", "")}

MixedInit ==
    /\ config \in {c \in Configs(RtProviders) : c.CacheEnabled}
    /\ unitIn = << >>
    /\ unitOut = << >>
    /\ rt = IdleRt
    /\ hpc = "idle"
    /\ req = NoRequest
    /\ callerDone = FALSE
    /\ response = NoResponse
    /\ cache = {}
    /\ agg = [l \in Legs |-> IdleLeg]
    /\ workers = [l \in Legs |-> [p \in AllProviders |-> IdleWorker]]
    /\ trace = << >>
    /\ cacheProv = {}

MixedNext ==
    \/ \E body \in MixedBodies : Receive(body)
    \/ \E ok \in BOOLEAN : ProbeHit(ok)
    \/ \E ok \in BOOLEAN : ProbeMiss(ok)
    \/ \E ok \in BOOLEAN : ProbeMissRoundTrip(ok)
    \/ SearchDone
    \/ \E ok \in BOOLEAN : Store(ok)
    \/ Respond
    \/ \E l \in Legs : StartLeg(l)
    \/ \E l \in Legs : AggregatorStep(l)
    \/ RtDeadlineFires
    \/ \E l \in Legs : LegSends(l)
    \/ RtReceive
    \/ RtReturns
    \/ RoundTripDone
    \/ CallerCancel
    \/ Expire

MixedSpec == MixedInit /\ [][MixedNext]_vars

(***************************************************************************)
(* ratelimit.ProviderLimiter: the bucket map under its sync.RWMutex, with  *)
(* several goroutines inside GetLimiter at once.  A bucket is known by the *)
(* name it was made for and by the goroutine that made it; those preset   *)
(* by SetProviderLimit before serving were made by none of them.  Reading  *)
(* the map and writing it take time: a goroutine at "read" or "recheck"    *)
(* is reading, a goroutine at "insert" is writing.                         *)
(***************************************************************************)
MaxCallers == 3

Callers == 1..MaxCallers

LimiterNames == {"garuda", "citilink"}

Bucket(name, maker) == [name |-> name, by |-> maker]

IdleCaller == [pc |-> "idle", provider |-> "", limiter |-> Nil, exists |-> FALSE]

(* NewProviderLimiter, then main's SetProviderLimit calls for the names preset. *)
NewProviderLimiter(preset) ==
    [limiters |-> {Bucket(n, Nil) : n \in preset},
     readers |-> {}, writer |-> Nil,
     made |-> {Bucket(n, Nil) : n \in preset},
     returned |-> {},
     callers |-> [c \in Callers |-> IdleCaller]]

LimiterInit ==
    /\ config = [providers |-> << >>, MaxRetries |-> 0, CacheEnabled |-> FALSE]
    /\ \E preset \in SUBSET {"garuda"} : \E n \in 1..MaxCallers :
          /\ unitIn = [fn |-> "GetLimiter", preset |-> preset, callers |-> 1..n]
          /\ unitOut = NewProviderLimiter(preset)
    /\ rt = IdleRt
    /\ hpc = "idle"
    /\ req = NoRequest
    /\ callerDone = FALSE
    /\ response = NoResponse
    /\ cache = {}
    /\ agg = [l \in Legs |-> IdleLeg]
    /\ workers = [l \in Legs |-> [p \in AllProviders |-> IdleWorker]]
    /\ trace = << >>
    /\ cacheProv = {}

LimiterFrame ==
    UNCHANGED <<unitIn, rt, config, hpc, req, callerDone, response, cache, agg, workers,
                trace, cacheProv>>

Caller(c) == unitOut.callers[c]

InGetLimiter(c) == unitIn # << >> /\ unitIn.fn = "GetLimiter" /\ c \in unitIn.callers

(* p.limiters[provider]: the bucket and whether there is one. *)
Lookup(limiters, name) ==
    IF \E b \in limiters : b.name = name
    THEN [limiter |-> Ptr(CHOOSE b \in limiters : b.name = name), exists |-> TRUE]
    ELSE [limiter |-> Nil, exists |-> FALSE]

(* A goroutine enters GetLimiter(provider). *)
GetLimiterCalled(c, name) ==
    /\ InGetLimiter(c)
    /\ Caller(c).pc \in {"idle", "returned"}
    /\ unitOut' = [unitOut EXCEPT !.callers[c] =
                      [IdleCaller EXCEPT !.pc = "rlock", !.provider = name]]
    /\ LimiterFrame

(* p.mu.RLock(): granted while no writer holds the mutex. *)
RLock(c) ==
    /\ InGetLimiter(c)
    /\ Caller(c).pc = "rlock"
    /\ unitOut.writer = Nil
    /\ unitOut' = [unitOut EXCEPT !.readers = @ \cup {c}, !.callers[c].pc = "read"]
    /\ LimiterFrame

(* limiter, exists := p.limiters[provider] *)
FirstRead(c) ==
    LET got == Lookup(unitOut.limiters, Caller(c).provider) IN
    /\ InGetLimiter(c)
    /\ Caller(c).pc = "read"
    /\ unitOut' = [unitOut EXCEPT !.callers[c].limiter = got.limiter,
                                  !.callers[c].exists = got.exists,
                                  !.callers[c].pc = "runlock"]
    /\ LimiterFrame

(* p.mu.RUnlock(); if exists { return limiter } *)
RUnlock(c) ==
    /\ InGetLimiter(c)
    /\ Caller(c).pc = "runlock"
    /\ unitOut' =
         [unitOut EXCEPT
            !.readers = @ \ {c},
            !.callers[c].pc = IF Caller(c).exists THEN "returned" ELSE "lock",
            !.returned = IF Caller(c).exists
                         THEN @ \cup {[to |-> c, limiter |-> Deref(Caller(c).limiter)]}
                         ELSE @]
    /\ LimiterFrame

(* p.mu.Lock(): granted while nobody holds the mutex. *)
Lock(c) ==
    /\ InGetLimiter(c)
    /\ Caller(c).pc = "lock"
    /\ unitOut.writer = Nil
    /\ unitOut.readers = {}
    /\ unitOut' = [unitOut EXCEPT !.writer = Ptr(c), !.callers[c].pc = "recheck"]
    /\ LimiterFrame

SecondReadBlind(c) ==
    /\ InGetLimiter(c)
    /\ Caller(c).pc = "recheck"
    /\ unitOut' = [unitOut EXCEPT !.callers[c].pc = "create"]
    /\ LimiterFrame

(* if limiter, exists = p.limiters[provider]; exists { return limiter } *)
SecondRead(c) ==
    LET got == Lookup(unitOut.limiters, Caller(c).provider) IN
    /\ InGetLimiter(c)
    /\ Caller(c).pc = "recheck"
    /\ unitOut' = [unitOut EXCEPT !.callers[c].limiter = got.limiter,
                                  !.callers[c].exists = got.exists,
                                  !.callers[c].pc = IF got.exists THEN "unlock" ELSE "create"]
    /\ LimiterFrame

(* limiter = rate.NewLimiter(...) *)
NewLimiter(c) ==
    LET b == Bucket(Caller(c).provider, Ptr(c)) IN
    /\ InGetLimiter(c)
    /\ Caller(c).pc = "create"
    /\ unitOut' = [unitOut EXCEPT !.made = @ \cup {b},
                                  !.callers[c].limiter = Ptr(b),
                                  !.callers[c].pc = "insert"]
    /\ LimiterFrame

(* p.limiters[provider] = limiter *)
Insert(c) ==
    LET b == Deref(Caller(c).limiter) IN
    /\ InGetLimiter(c)
    /\ Caller(c).pc = "insert"
    /\ unitOut' = [unitOut EXCEPT
                      !.limiters = {x \in @ : x.name # b.name} \cup {b},
                      !.callers[c].pc = "unlock"]
    /\ LimiterFrame

(* return limiter, and the deferred p.mu.Unlock(). *)
Unlock(c) ==
    /\ InGetLimiter(c)
    /\ Caller(c).pc = "unlock"
    /\ unitOut' = [unitOut EXCEPT
                      !.writer = Nil,
                      !.callers[c].pc = "returned",
                      !.returned = @ \cup {[to |-> c, limiter |-> Deref(Caller(c).limiter)]}]
    /\ LimiterFrame

LimiterNext ==
    \E c \in Callers :
        \/ \E name \in LimiterNames : GetLimiterCalled(c, name)
        \/ RLock(c)
        \/ FirstRead(c)
        \/ RUnlock(c)
        \/ Lock(c)
        \/ SecondRead(c)
        \/ NewLimiter(c)
        \/ Insert(c)
        \/ Unlock(c)

LimiterSpec == LimiterInit /\ [][LimiterNext]_vars

(***************************************************************************)
(* Aggregator.searchWithRetry on its own, lines 243-277, under every       *)
(* Config the type admits: MaxRetries an int, RetryDelays a slice of any   *)
(* length, in milliseconds.  The context is ended from outside.  Indexing  *)
(* a slice outside 0..len-1 panics.                                        *)
(***************************************************************************)
MaxDelays == 2

DelayChoices == {100, 200}

DelaySlices ==
    UNION {[1..n -> DelayChoices] : n \in 0..MaxDelays}

RetryConfigs ==
    [MaxRetries : 0..(MaxDelays + 1), RetryDelays : DelaySlices]

RetryStart ==
    [pc |-> "top", attempt |-> 0, lastErr |-> NoErr, ctx |-> "alive",
     delayIdx |-> 0, sleeps |-> << >>, calls |-> 0, okCalls |-> 0,
     ret |-> Nil, panic |-> NoErr]

RetryInit ==
    /\ config = [providers |-> << >>, MaxRetries |-> 0, CacheEnabled |-> FALSE]
    /\ \E c \in RetryConfigs : \E p \in {"airasia", "garuda"} :
          unitIn = [fn |-> "searchWithRetry", config |-> c, provider |-> p]
    /\ unitOut = RetryStart
    /\ rt = IdleRt
    /\ hpc = "idle"
    /\ req = NoRequest
    /\ callerDone = FALSE
    /\ response = NoResponse
    /\ cache = {}
    /\ agg = [l \in Legs |-> IdleLeg]
    /\ workers = [l \in Legs |-> [p \in AllProviders |-> IdleWorker]]
    /\ trace = << >>
    /\ cacheProv = {}

RetryFrame ==
    UNCHANGED <<unitIn, rt, config, hpc, req, callerDone, response, cache, agg, workers,
                trace, cacheProv>>

InRetry(pc) == unitIn # << >> /\ unitIn.fn = "searchWithRetry" /\ unitOut.pc = pc

RetryReturn(flights, err) ==
    [unitOut EXCEPT !.pc = "returned", !.ret = Ptr([flights |-> flights, err |-> err])]

(* The context ends: its deadline fires or the caller cancels. *)
RetryCtxEnds(err) ==
    /\ unitIn # << >> /\ unitIn.fn = "searchWithRetry"
    /\ unitOut.pc \notin {"returned", "panicked"}
    /\ unitOut.ctx = "alive"
    /\ unitOut' = [unitOut EXCEPT !.ctx = err]
    /\ RetryFrame

(* for attempt := 0; attempt <= MaxRetries; ...: the loop test, the ctx check. *)
RetryLoopTop ==
    /\ InRetry("top")
    /\ unitOut' =
         IF unitOut.attempt > unitIn.config.MaxRetries THEN RetryReturn(Nil, unitOut.lastErr)
         ELSE IF unitOut.ctx # "alive" THEN RetryReturn(Nil, unitOut.ctx)
         ELSE IF unitOut.attempt > 0 THEN [unitOut EXCEPT !.pc = "delay"]
         ELSE [unitOut EXCEPT !.pc = "call"]
    /\ RetryFrame

(* delayIdx := attempt - 1; if delayIdx >= len(RetryDelays) { delayIdx = len - 1 } *)
ClampedIndex(attempt, delays) ==
    LET delayIdx == attempt - 1 IN
    IF delayIdx >= Len(delays) THEN Len(delays) - 1 ELSE delayIdx

(* delay := a.config.RetryDelays[delayIdx], then the select is entered. *)
RetryTakeDelay ==
    LET delays == unitIn.config.RetryDelays
        delayIdx == ClampedIndex(unitOut.attempt, delays)
    IN
    /\ InRetry("delay")
    /\ unitOut' =
         IF delayIdx < 0 \/ delayIdx >= Len(delays)
         THEN [unitOut EXCEPT !.pc = "panicked", !.delayIdx = delayIdx,
                              !.panic = "index out of range"]
         ELSE [unitOut EXCEPT !.pc = "sleep", !.delayIdx = delayIdx,
                              !.sleeps = Append(@, [attempt |-> unitOut.attempt,
                                                    delay |-> delays[delayIdx + 1],
                                                    cut |-> FALSE])]
    /\ RetryFrame

(* case <-time.After(delay) *)
RetrySleepElapsed ==
    /\ InRetry("sleep")
    /\ unitOut' = [unitOut EXCEPT !.pc = "call"]
    /\ RetryFrame

(* case <-ctx.Done(): return nil, ctx.Err() *)
RetrySleepCancelled ==
    /\ InRetry("sleep")
    /\ unitOut.ctx # "alive"
    /\ unitOut' = [RetryReturn(Nil, unitOut.ctx) EXCEPT !.sleeps[Len(unitOut.sleeps)].cut = TRUE]
    /\ RetryFrame

(* provider.Search(ctx, req) is called: under an ended context it returns
   ctx.Err() at once, otherwise it blocks on its latency. *)
RetryCall ==
    /\ InRetry("call")
    /\ unitOut' =
         IF unitOut.ctx # "alive"
         THEN [unitOut EXCEPT !.pc = "top", !.calls = @ + 1, !.attempt = @ + 1,
                              !.lastErr = unitOut.ctx]
         ELSE [unitOut EXCEPT !.pc = "search", !.calls = @ + 1]
    /\ RetryFrame

(* err == nil: return flights, nil *)
RetrySearchSucceeds ==
    /\ InRetry("search")
    /\ unitOut' = [RetryReturn(Ptr(<< >>), NoErr) EXCEPT !.okCalls = @ + 1]
    /\ RetryFrame

(* The call failed, by the provider's fault or by the context's end:
   lastErr = err, attempt++. *)
RetrySearchFails ==
    /\ InRetry("search")
    /\ unitOut.ctx # "alive" \/ CanFail(unitIn.provider)
    /\ \E err \in {unitOut.ctx, ErrAirAsiaTemporaryFailure} :
          /\ err = unitOut.ctx => unitOut.ctx # "alive"
          /\ err = ErrAirAsiaTemporaryFailure => CanFail(unitIn.provider)
          /\ unitOut' = [unitOut EXCEPT !.pc = "top", !.attempt = @ + 1, !.lastErr = err]
    /\ RetryFrame

RetryNext ==
    \/ \E err \in {DeadlineExceeded, Canceled} : RetryCtxEnds(err)
    \/ RetryLoopTop
    \/ RetryTakeDelay
    \/ RetrySleepElapsed
    \/ RetrySleepCancelled
    \/ RetryCall
    \/ RetrySearchSucceeds
    \/ RetrySearchFails

RetrySpec == RetryInit /\ [][RetryNext]_vars

(***************************************************************************)
(* One Aggregator.Search under any MaxRetries the Config type admits,      *)
(* negative values included: NewAggregator stores the Config as given.     *)
(***************************************************************************)
AnyRetriesConfigs ==
    [providers : {ProviderList(n) : n \in 0..MaxProviders},
     MaxRetries : (-1)..MaxRetriesBound,
     CacheEnabled : {FALSE}]

InitAggAnyRetries ==
    /\ config \in AnyRetriesConfigs
    /\ unitIn = << >>
    /\ unitOut = << >>
    /\ rt = IdleRt
    /\ hpc = "search"
    /\ req = AggRequest
    /\ callerDone \in BOOLEAN
    /\ response = NoResponse
    /\ cache = {}
    /\ agg = [l \in Legs |->
                IF l = "out"
                THEN StartedLeg(AggRequest, IF callerDone THEN Canceled ELSE NoErr)
                ELSE IdleLeg]
    /\ workers = [l \in Legs |->
                    IF l = "out"
                    THEN LaunchedWorkers(IF callerDone THEN Canceled ELSE NoErr)
                    ELSE [p \in AllProviders |-> IdleWorker]]
    /\ trace = <<"get", "search">>
    /\ cacheProv = {}

AnyRetriesAggSpec == InitAggAnyRetries /\ [][NextAgg]_vars

(***************************************************************************)
(* C1.  In every success response providers_queried equals                 *)
(* providers_succeeded + providers_failed and equals the number of         *)
(* configured providers for a one-way response, twice that number for a    *)
(* round-trip response.                                                    *)
(***************************************************************************)
C1_QueriedIsConfiguredCount ==
    Responded200 =>
        /\ response.metadata.ProvidersQueried =
              response.metadata.ProvidersSucceeded + response.metadata.ProvidersFailed
        /\ response.metadata.ProvidersQueried =
              IF response.kind = "roundtrip" THEN 2 * Len(config.providers)
              ELSE Len(config.providers)

(***************************************************************************)
(* C2.  Aggregator.Search returns no error whatever the providers did, and *)
(* when it returns every configured provider is counted exactly once: as   *)
(* succeeded, with exactly the flights of its successful call in Flights,  *)
(* or as failed, with its name once in FailedProviders and no flight of    *)
(* its own in Flights.                                                     *)
(***************************************************************************)
CountedSucceeded(p) ==
    /\ Worker(p).err = NoErr
    /\ Worker(p).okCalls = 1
    /\ Count(Out.result.FailedProviders, p) = 0
    /\ FlightsOf(Out.result.Flights, p) = ProviderFlights(p, Out.req)

CountedFailed(p) ==
    /\ Worker(p).err # NoErr
    /\ Worker(p).okCalls = 0
    /\ Count(Out.result.FailedProviders, p) = 1
    /\ FlightsOf(Out.result.Flights, p) = << >>

C2_EveryProviderCountedOnce ==
    Out.state = "returned" =>
        /\ Out.err = NoErr
        /\ \A p \in Providers : CountedSucceeded(p) \/ CountedFailed(p)
        /\ Out.result.ProvidersFailed = Len(Out.result.FailedProviders)
        /\ Out.result.ProvidersSucceeded + Out.result.ProvidersFailed = Len(config.providers)
        /\ \A i \in 1..Len(Out.result.Flights) : Out.result.Flights[i].Provider \in Providers

C2_PartialFailureReturned ==
    /\ Out.state = "returned"
    /\ Out.err = NoErr
    /\ Out.result.ProvidersFailed >= 1
    /\ Out.result.ProvidersSucceeded >= 1
    /\ Len(Out.result.Flights) > 0

(***************************************************************************)
(* C3.  Within one Search invocation a provider is called at most          *)
(* MaxRetries + 1 times, and never again after one of its calls returned   *)
(* successfully.                                                           *)
(***************************************************************************)
C3_AtMostRPlusOneCalls ==
    \A p \in AllProviders :
        /\ Worker(p).calls <= config.MaxRetries + 1
        /\ Worker(p).okCalls <= 1
        /\ ~Worker(p).lateCall
        /\ Worker(p).okCalls = 1 => Worker(p).pc \in {"emit", "done"}

C3_LastAttemptSucceeded ==
    \E p \in Providers :
        /\ config.MaxRetries >= 1
        /\ Worker(p).pc = "done"
        /\ Worker(p).calls = config.MaxRetries + 1
        /\ Worker(p).okCalls = 1
(***************************************************************************)
(* C4.  As stated: once the deadline has fired, every provider whose       *)
(* outcome was not yet emitted is counted failed with the deadline's       *)
(* cancellation error, and none of them is counted succeeded.              *)
(***************************************************************************)
C4_UnemittedAtExpiryFailCancelled ==
    [][\A p \in Providers :
          (/\ Out.ctx = DeadlineExceeded
           /\ Worker(p).pc \notin {"idle", "done"}
           /\ Worker(p).pc' = "done")
          => Worker(p).err' = DeadlineExceeded]_vars

(***************************************************************************)
(* C4, as the code has it.  Once the deadline has fired, a provider whose  *)
(* goroutine is waiting for a token, is at the retry check with an attempt *)
(* left, is in a backoff, or is about to call the provider, makes no       *)
(* successful call any more and is counted in ProvidersFailed with the     *)
(* deadline error.  (A goroutine blocked in the provider's latency wait,   *)
(* or already holding its outcome, is not covered: it may still be counted *)
(* succeeded, or failed with its last provider error.)                     *)
(***************************************************************************)
CountedDeadlineFailure(p) ==
    \/ \E i \in 1..Len(Out.resultCh) :
          /\ Out.resultCh[i].provider = p
          /\ Out.resultCh[i].err = DeadlineExceeded
          /\ Out.resultCh[i].flights = << >>
    \/ /\ Count(Out.result.FailedProviders, p) = 1
       /\ FlightsOf(Out.result.Flights, p) = << >>

Doomed(p) ==
    /\ Out.ctx = DeadlineExceeded
    /\ Worker(p).okCalls = 0
    /\ \/ Worker(p).pc \in {"wait", "backoff", "call"}
       \/ /\ Worker(p).pc = "top"
          /\ Worker(p).attempt <= config.MaxRetries \/ Worker(p).lastErr = DeadlineExceeded
       \/ /\ Worker(p).pc = "emit"
          /\ Worker(p).err = DeadlineExceeded
          /\ Worker(p).flights = << >>
       \/ /\ Worker(p).pc = "done"
          /\ Worker(p).err = DeadlineExceeded
          /\ CountedDeadlineFailure(p)

C4_SuspendedAtExpiryFailCancelled ==
    [][\A p \in Providers : Doomed(p) => Doomed(p)']_vars

C4_WaitingAtExpiryCounted ==
    \E p \in Providers :
        /\ Out.state = "returned"
        /\ Out.ctx = DeadlineExceeded
        /\ Worker(p).calls = 0
        /\ Worker(p).tokens = 0
        /\ Worker(p).err = DeadlineExceeded
        /\ Count(Out.result.FailedProviders, p) = 1

(***************************************************************************)
(* C5.  Under fair scheduling every Aggregator.Search invocation that has  *)
(* launched its goroutines returns.                                        *)
(***************************************************************************)
C5_SearchTerminates ==
    (Out.state = "running") ~> (Out.state = "returned")

C5_ReturnedAfterDeadlineCutAll ==
    /\ Out.state = "returned"
    /\ Out.ctx = DeadlineExceeded
    /\ Len(config.providers) = MaxProviders
    /\ \A p \in Providers : Worker(p).err = DeadlineExceeded
    /\ \E p \in Providers : Worker(p).calls > 0

(***************************************************************************)
(* C6.  When the caller's context is cancelled before any provider did     *)
(* useful work, Aggregator.Search returns a non-nil error and the handler  *)
(* answers 500, not 200.                                                   *)
(***************************************************************************)
C6_CallerCancelSurfacesAs500 ==
    (/\ hpc = "responded"
     /\ Len(trace) >= 3 /\ trace[3] = "returned"
     /\ callerDone
     /\ Providers # {}
     /\ \A p \in Providers :
           /\ Worker(p).okCalls = 0
           /\ Worker(p).calls = 0
           /\ Worker(p).err = Canceled)
    => /\ Out.err # NoErr
       /\ response.status = StatusInternalServerError

(***************************************************************************)
(* C7.  Every cache entry written by the handler comes from an aggregation *)
(* in which no provider failed.                                            *)
(***************************************************************************)
C7_CachedOnlyFullAggregations ==
    \A e \in cacheProv : e.failed = 0

(***************************************************************************)
(* C8.  The list handed to cache.Set is the aggregator's flight list as    *)
(* the providers produced it (unfiltered, unscored, unsorted), and every   *)
(* one-way 200 response carries Apply of the request's own filters and     *)
(* sort directives on the unfiltered list: the aggregator's on a miss, the *)
(* stored one on a hit, whichever request stored it.                       *)
(***************************************************************************)
Unscored(flights) == \A i \in 1..Len(flights) : flights[i].BestValueScore = 0

OwnView(r, flights) == Apply(flights, r.Filters, r.SortBy, r.SortOrder)

Ids(flights) == {flights[i].ID : i \in 1..Len(flights)}

Passing(r, flights) ==
    LET Test(f) == r.Filters = Nil \/ matchesFilters(f, Deref(r.Filters))
    IN SelectSeq(flights, Test)

C8_CacheHoldsUnfilteredList ==
    /\ \A e \in cacheProv :
          /\ HasEntry(e.key)
          /\ UnmarshalFlights(EntryOf(e.key).data) = e.list
          /\ Unscored(e.list)
          /\ \A p \in Providers :
                FlightsOf(e.list, p) \in {<< >>, ProviderFlights(p, e.by)}
    /\ (Responded200 /\ ~response.metadata.CacheHit) =>
          response.flights = OwnView(req, Out.result.Flights)
    /\ (Responded200 /\ response.metadata.CacheHit) =>
          \A e \in cacheProv :
             e.key = generateKey(req) =>
                /\ response.flights = OwnView(req, e.list)
                /\ Len(response.flights) = Len(Passing(req, e.list))
                /\ Ids(response.flights) = Ids(Passing(req, e.list))

C8_HitUnderOtherFilters ==
    /\ Responded200
    /\ response.metadata.CacheHit
    /\ req.Filters = Nil
    /\ \E e \in cacheProv :
          /\ e.key = generateKey(req)
          /\ e.by.Filters = Ptr(DirectOnly)
          /\ Len(e.list) = 2
          /\ Len(OwnView(e.by, e.list)) = 1
    /\ Len(response.flights) = 2

(***************************************************************************)
(* C10.  A valid one-way request probes the cache first.  On a hit the     *)
(* handler filters and responds with no provider call, no rate-limit token *)
(* and no cache write.  On a miss it runs one aggregation, then calls      *)
(* cache.Set once, then filters, then responds.                            *)
(***************************************************************************)
HitTrace == <<"get", "apply", "respond">>
MissTrace == <<"get", "search", "returned", "set", "apply", "respond">>
IsPrefix(s, t) == Len(s) <= Len(t) /\ SubSeq(t, 1, Len(s)) = s

C10_ProbeThenAggregateThenStore ==
    /\ IsPrefix(trace, HitTrace) \/ IsPrefix(trace, MissTrace)
    /\ (\E p \in Providers : Worker(p).pc # "idle") =>
          Len(trace) >= 2 /\ trace[1] = "get" /\ trace[2] = "search"
    /\ (Responded200 /\ response.metadata.CacheHit) =>
          /\ trace = HitTrace
          /\ \A p \in AllProviders : Worker(p) = IdleWorker
          /\ Out = IdleLeg
    /\ (Responded200 /\ ~response.metadata.CacheHit) =>
          /\ trace = MissTrace
          /\ Out.state = "returned"
    /\ hpc = "filter" => Out.state = "returned" /\ Count(trace, "set") = 1

C10_HitAnsweredFromCache ==
    /\ Responded200
    /\ response.metadata.CacheHit
    /\ trace = HitTrace
    /\ Providers # {}
    /\ Len(response.flights) > 0
(***************************************************************************)
(* C9.  generateKey gives one key to two requests that agree on origin,    *)
(* destination, departure date, return date (absent read as the empty     *)
(* string), passengers and cabin class, whatever their filters and sort    *)
(* directives; two requests that differ in one of the six are serialized   *)
(* differently.                                                            *)
(***************************************************************************)
ReturnDateOrEmpty(r) == IF r.ReturnDate = Nil THEN "" ELSE r.ReturnDate[1]

AgreeOnKeyFields(a, b) ==
    /\ a.Origin = b.Origin
    /\ a.Destination = b.Destination
    /\ a.DepartureDate = b.DepartureDate
    /\ ReturnDateOrEmpty(a) = ReturnDateOrEmpty(b)
    /\ a.Passengers = b.Passengers
    /\ a.CabinClass = b.CabinClass

C9_SameKeyIffSixFieldsAgree ==
    (unitIn # << >> /\ unitOut # << >>) =>
        IF AgreeOnKeyFields(unitIn.a, unitIn.b)
        THEN unitOut[1].key = unitOut[2].key
        ELSE unitOut[1].data # unitOut[2].data

C9_AbsentAndEmptyReturnDateShareKey ==
    /\ unitIn # << >>
    /\ unitOut # << >>
    /\ unitIn.a.ReturnDate = Nil
    /\ unitIn.b.ReturnDate = Ptr("")
    /\ unitIn.a.SortBy # unitIn.b.SortBy
    /\ unitIn.a.Filters # unitIn.b.Filters
    /\ unitOut[1].key = unitOut[2].key
(***************************************************************************)
(* C11.  A request whose origin, destination or departure date is empty    *)
(* is answered 400 validation_error with no cache probe, no token and no   *)
(* provider call, and Validate leaves the request as it was sent (no       *)
(* default applied); a request that goes on to the cache probe has all     *)
(* three.                                                                  *)
(***************************************************************************)
MissingRequired(r) == r.Origin = "" \/ r.Destination = "" \/ r.DepartureDate = ""

RejectedByValidation ==
    /\ hpc = "responded"
    /\ response.status = StatusBadRequest
    /\ response.error = "validation_error"

C11_InvalidRejectedUntouched ==
    /\ RejectedByValidation =>
          /\ MissingRequired(req)
          /\ req \in OneWayBodies
          /\ req.Passengers = 0 /\ req.CabinClass = "" /\ req.SortBy = "" /\ req.SortOrder = ""
          /\ response.message \in
                {ErrMissingOrigin, ErrMissingDestination, ErrMissingDepartureDate}
          /\ trace = << >>
          /\ Out = IdleLeg
          /\ \A p \in AllProviders : Worker(p) = IdleWorker
    /\ (req # NoRequest /\ MissingRequired(req)) => RejectedByValidation
    /\ trace # << >> => ~MissingRequired(req)

C11_MissingDateRejectedBesideCachedEntry ==
    /\ RejectedByValidation
    /\ response.message = ErrMissingDepartureDate
    /\ req.Origin = "CGK" /\ req.Destination = "DPS"
    /\ cache # {}
(***************************************************************************)
(* C12.  In a round trip each leg runs under the deadline 2*T of the       *)
(* request: no leg's context ends by deadline, and no provider is failed   *)
(* with the deadline error, before the 2*T timer has fired.                *)
(***************************************************************************)
C12_LegsRunUnderDoubledDeadline ==
    \A l \in Legs :
        /\ agg[l].ctx = DeadlineExceeded => rt.ctx = DeadlineExceeded
        /\ \A p \in Providers :
              workers[l][p].err = DeadlineExceeded => rt.ctx = DeadlineExceeded

(***************************************************************************)
(* C13.  SearchRoundTrip returns only after it received the outcome of     *)
(* both legs, in whichever order they arrive.  If the outbound leg sent an *)
(* error, it returns that error and no result (the handler answers 500);   *)
(* if only the return leg sent an error, it returns the outbound result, a *)
(* nil return result and no error (the handler answers 200 with an empty   *)
(* return list).                                                           *)
(***************************************************************************)
C13_BothLegsAwaitedErrorsSettled ==
    /\ rt.state = "returned" =>
          /\ Len(rt.got) = 2
          /\ {rt.got[1], rt.got[2]} = Legs
          /\ rt.resultCh = << >>
          /\ rt.ret =
                IF unitIn.out.err # NoErr
                THEN [outbound |-> Nil, returnResult |-> Nil, err |-> unitIn.out.err]
                ELSE IF unitIn.ret.err # NoErr
                THEN [outbound |-> unitIn.out.result, returnResult |-> Nil, err |-> NoErr]
                ELSE [outbound |-> unitIn.out.result, returnResult |-> unitIn.ret.result,
                      err |-> NoErr]
    /\ hpc = "responded" =>
          IF unitIn.out.err # NoErr
          THEN /\ response.status = StatusInternalServerError
               /\ response.message = unitIn.out.err
          ELSE /\ response.status = StatusOK
               /\ response.outboundFlights = OwnView(req, Deref(unitIn.out.result).Flights)
               /\ unitIn.ret.err # NoErr =>
                     /\ response.returnFlights = << >>
                     /\ response.metadata.ProvidersQueried =
                           Deref(unitIn.out.result).ProvidersQueried

C13_ReturnLegFailedFirst ==
    /\ hpc = "responded"
    /\ rt.got = <<"ret", "out">>
    /\ unitIn.ret.err # NoErr
    /\ unitIn.ret.result # Nil
    /\ unitIn.out.err = NoErr
    /\ response.status = StatusOK
    /\ Len(response.outboundFlights) > 0
    /\ response.returnFlights = << >>

(***************************************************************************)
(* C14.  The outbound leg searches the caller's origin, destination and    *)
(* departure date; the return leg searches destination to origin on the    *)
(* return date, with the caller's passengers and cabin class.  In every    *)
(* order of completion the response's outbound_flights come from the       *)
(* outbound leg only and its return_flights from the return leg only.      *)
(***************************************************************************)
FliesLeg(f, from, to, date) ==
    /\ EqualFold(f.DepAirport, from)
    /\ EqualFold(f.ArrAirport, to)
    /\ f.DepDate = date

C14_LegsSearchedAndKeptApart ==
    /\ agg["out"].state # "off" => agg["out"].req = req
    /\ agg["ret"].state # "off" =>
          /\ agg["ret"].req.Origin = req.Destination
          /\ agg["ret"].req.Destination = req.Origin
          /\ agg["ret"].req.DepartureDate = Deref(req.ReturnDate)
          /\ agg["ret"].req.Passengers = req.Passengers
          /\ agg["ret"].req.CabinClass = req.CabinClass
    /\ Responded200 =>
          /\ response.kind = "roundtrip"
          /\ response.outboundFlights = OwnView(req, agg["out"].result.Flights)
          /\ response.returnFlights = OwnView(req, agg["ret"].result.Flights)
          /\ \A i \in 1..Len(response.outboundFlights) :
                FliesLeg(response.outboundFlights[i], req.Origin, req.Destination,
                         req.DepartureDate)
          /\ \A i \in 1..Len(response.returnFlights) :
                FliesLeg(response.returnFlights[i], req.Destination, req.Origin,
                         Deref(req.ReturnDate))

C14_ReturnLegFinishedFirst ==
    /\ Responded200
    /\ rt.got = <<"ret", "out">>
    /\ Len(response.outboundFlights) > 0
    /\ Len(response.returnFlights) > 0

(***************************************************************************)
(* C15.  The filter stage outputs, in their input order, exactly the       *)
(* input flights that satisfy every declared predicate: price within       *)
(* [price_min, price_max], stops <= max_stops, airline code in the         *)
(* non-empty airlines list whatever the case, departure and arrival wall   *)
(* clock within the inclusive windows, total minutes <= max_duration.  An  *)
(* absent predicate and a time bound that does not parse reject nothing.   *)
(* The response counts the flights left, and carries the aggregation's     *)
(* provider metadata even when no flight is left.                          *)
(***************************************************************************)
Applied == unitIn # << >> /\ unitIn.fn = "Apply" /\ unitOut # << >>

Declared(p) == p # Nil

TimeDeclared(p) == p # Nil /\ parseTimeOfDay(Deref(p)).ok

Bound(p) == parseTimeOfDay(Deref(p)).v

WallClock(t) == (t.utc + t.off) % 1440

SatisfiesDeclared(f, fl) ==
    /\ Declared(fl.PriceMin) => Deref(fl.PriceMin) <= f.Price
    /\ Declared(fl.PriceMax) => f.Price <= Deref(fl.PriceMax)
    /\ Declared(fl.MaxStops) => f.Stops <= Deref(fl.MaxStops)
    /\ fl.Airlines # << >> =>
          ToLower(f.AirlineCode) \in {ToLower(fl.Airlines[i]) : i \in 1..Len(fl.Airlines)}
    /\ TimeDeclared(fl.DepartureTimeMin) => Bound(fl.DepartureTimeMin) <= WallClock(f.DepTime)
    /\ TimeDeclared(fl.DepartureTimeMax) => WallClock(f.DepTime) <= Bound(fl.DepartureTimeMax)
    /\ TimeDeclared(fl.ArrivalTimeMin) => Bound(fl.ArrivalTimeMin) <= WallClock(f.ArrTime)
    /\ TimeDeclared(fl.ArrivalTimeMax) => WallClock(f.ArrTime) <= Bound(fl.ArrivalTimeMax)
    /\ Declared(fl.MaxDuration) => f.TotalMinutes <= Deref(fl.MaxDuration)

C15_FilterKeepsExactlyMatching ==
    Applied =>
        LET Keep(f) == unitIn.filters = Nil \/ SatisfiesDeclared(f, Deref(unitIn.filters))
            given == AggregatedResult(unitIn.flights)
            meta == unitOut.response.metadata
        IN /\ unitOut.filtered = SelectSeq(unitIn.flights, Keep)
           /\ Len(unitOut.flights) = Len(unitOut.filtered)
           /\ Ids(unitOut.flights) = Ids(unitOut.filtered)
           /\ unitOut.response.status = StatusOK
           /\ meta.TotalResults = Len(unitOut.filtered)
           /\ meta.ProvidersQueried = given.ProvidersQueried
           /\ meta.ProvidersSucceeded = given.ProvidersSucceeded
           /\ meta.ProvidersFailed = given.ProvidersFailed
           /\ meta.FailedProviders = given.FailedProviders

(* An airline list in another case keeps some flights and rejects others. *)
C15_AirlineMatchedInAnotherCase ==
    /\ Applied
    /\ unitIn.filters # Nil
    /\ Deref(unitIn.filters).Airlines = <<"qz", "GA">>
    /\ Len(unitOut.filtered) > 0
    /\ Len(unitOut.filtered) < Len(unitIn.flights)

(* Every flight rejected, the provider metadata still reported. *)
C15_EveryFlightRejected ==
    /\ Applied
    /\ Len(unitIn.flights) > 0
    /\ unitOut.response.metadata.TotalResults = 0
    /\ unitOut.response.metadata.ProvidersQueried = 4
    /\ unitOut.response.metadata.FailedProviders = <<"lionair">>

(***************************************************************************)
(* C16.  When sort_by is best_value, every returned score is normalised    *)
(* by the largest price and the longest duration among the flights that    *)
(* passed the filter, never among the unfiltered list: the flights the     *)
(* filter rejected change no returned score, so that the outcome is the    *)
(* one the filtered list alone would give.                                 *)
(***************************************************************************)
LargestOf(S) == IF S = {} THEN 0 ELSE CHOOSE m \in S : \A x \in S : x <= m

C16_ScoresNormalisedOverFiltered ==
    Applied /\ unitIn.sortBy = "best_value" =>
        LET kept == unitOut.filtered
            maxPrice == LargestOf({kept[i].Price : i \in 1..Len(kept)})
            maxDuration == LargestOf({kept[i].TotalMinutes : i \in 1..Len(kept)})
        IN /\ \A i \in 1..Len(unitOut.flights) :
                 unitOut.flights[i].BestValueScore =
                     CalculateBestValue(unitOut.flights[i], maxPrice, maxDuration)
           /\ unitOut.flights = Apply(kept, Nil, unitIn.sortBy, unitIn.sortOrder)
           /\ unitOut.response.flights = unitOut.flights

(* Direct flights only, beside a dearer and longer flight with a stop whose *)
(* price and duration would have changed a score.                           *)
C16_DearerFlightWithStopFilteredOut ==
    /\ Applied
    /\ unitIn.sortBy = "best_value"
    /\ unitIn.filters = Ptr(DirectOnly)
    /\ Len(unitOut.flights) > 0
    /\ \E i \in 1..Len(unitIn.flights) :
          /\ unitIn.flights[i].Stops > 0
          /\ \A j \in 1..Len(unitOut.flights) :
                /\ unitIn.flights[i].Price > unitOut.flights[j].Price
                /\ unitIn.flights[i].TotalMinutes > unitOut.flights[j].TotalMinutes
    /\ \E j \in 1..Len(unitOut.flights) :
          unitOut.flights[j].BestValueScore #
              CalculateBestValue(unitOut.flights[j], findMaxPrice(unitIn.flights),
                                 findMaxDuration(unitIn.flights))

(***************************************************************************)
(* C17.  As stated: for every request with sort_by = best_value the        *)
(* returned flights are non-decreasing in best_value_score and the first   *)
(* one has the least score of those returned.                              *)
(***************************************************************************)
Scores(flights) == [i \in 1..Len(flights) |-> flights[i].BestValueScore]

NonDecreasing(k) == \A i \in 1..Len(k) : \A j \in i..Len(k) : k[i] <= k[j]

NonIncreasing(k) == \A i \in 1..Len(k) : \A j \in i..Len(k) : k[i] >= k[j]

C17_BestValueAlwaysNonDecreasing ==
    Applied /\ unitIn.sortBy = "best_value" =>
        LET k == Scores(unitOut.response.flights)
        IN /\ NonDecreasing(k)
           /\ \A i \in 1..Len(k) : k[1] <= k[i]

(***************************************************************************)
(* C17, amended.  For a request with sort_by = best_value the returned     *)
(* flights are non-decreasing in best_value_score, the first having the    *)
(* least score, unless sort_order is desc in any letter case: then they    *)
(* are non-increasing and the first has the greatest score.                *)
(***************************************************************************)
Descending(sortOrder) == ToLower(sortOrder) = "desc"

C17_BestValueOrderedAsRequested ==
    Applied /\ unitIn.sortBy = "best_value" =>
        LET k == Scores(unitOut.response.flights)
        IN IF Descending(unitIn.sortOrder)
           THEN NonIncreasing(k) /\ \A i \in 1..Len(k) : k[1] >= k[i]
           ELSE NonDecreasing(k) /\ \A i \in 1..Len(k) : k[1] <= k[i]

(* A descending best-value request over flights given in ascending score. *)
C17_DescendingBestValueReordered ==
    /\ Applied
    /\ unitIn.sortBy = "best_value"
    /\ unitIn.sortOrder = "desc"
    /\ Len(unitOut.ranked) >= 2
    /\ \A i \in 1..(Len(unitOut.ranked) - 1) :
          unitOut.ranked[i].BestValueScore < unitOut.ranked[i + 1].BestValueScore
    /\ unitOut.response.flights # unitOut.ranked

(***************************************************************************)
(* C18.  For each recognized sort key (price, duration, departure,         *)
(* arrival, best_value, stops) the sort stage returns a permutation of     *)
(* the filtered flights that is non-decreasing in the key when sort_order  *)
(* is asc and non-increasing when it is desc; sort_by = price with         *)
(* sort_order = asc returns flights non-decreasing in price.               *)
(***************************************************************************)
KeyOf(f, sortBy) ==
    CASE sortBy = "price" -> f.Price
      [] sortBy = "duration" -> f.TotalMinutes
      [] sortBy = "departure" -> f.DepTime.utc
      [] sortBy = "arrival" -> f.ArrTime.utc
      [] sortBy = "best_value" -> f.BestValueScore
      [] sortBy = "stops" -> f.Stops

Keys(flights, sortBy) == [i \in 1..Len(flights) |-> KeyOf(flights[i], sortBy)]

IsPermutation(a, b) ==
    /\ Len(a) = Len(b)
    /\ \A f \in Range(a) \cup Range(b) : Count(a, f) = Count(b, f)

C18_SortedPermutationInRequestedOrder ==
    Applied /\ unitIn.sortBy \in {"price", "duration", "departure", "arrival",
                                  "best_value", "stops"} =>
        /\ IsPermutation(unitOut.sorted, unitOut.ranked)
        /\ Ids(unitOut.sorted) = Ids(unitOut.filtered)
        /\ unitOut.flights = unitOut.sorted
        /\ unitIn.sortOrder = "asc" => NonDecreasing(Keys(unitOut.sorted, unitIn.sortBy))
        /\ unitIn.sortOrder = "desc" => NonIncreasing(Keys(unitOut.sorted, unitIn.sortBy))

(* Thirteen unordered flights sorted by ascending price. *)
C18_ThirteenFlightsSortedByPrice ==
    /\ Applied
    /\ unitIn.sortBy = "price"
    /\ unitIn.sortOrder = "asc"
    /\ Len(unitOut.ranked) > MaxInsertion
    /\ unitOut.sorted # unitOut.ranked

(***************************************************************************)
(* C19.  The sort stage is stable: two flights with equal values of the    *)
(* selected key appear in the output in the relative order they had in     *)
(* the filtered input, for every sort key and both sort orders.            *)
(***************************************************************************)
Position(flights, f) == CHOOSE k \in 1..Len(flights) : flights[k] = f

C19_SortIsStable ==
    Applied /\ unitIn.sortBy \in {"price", "duration", "departure", "arrival",
                                  "best_value", "stops"} =>
        \A i \in 1..Len(unitOut.ranked) : \A j \in (i + 1)..Len(unitOut.ranked) :
            KeyOf(unitOut.ranked[i], unitIn.sortBy) = KeyOf(unitOut.ranked[j], unitIn.sortBy)
                => Position(unitOut.sorted, unitOut.ranked[i])
                       < Position(unitOut.sorted, unitOut.ranked[j])

(***************************************************************************)
(* C20.  A flight carries a non-zero best_value_score only in the          *)
(* response to a request whose sort_by is best_value: under every other    *)
(* sort_by every returned flight has score zero, also when the flights     *)
(* come from a cache entry that an earlier best_value request stored.      *)
(***************************************************************************)
C20_ScoredOnlyUnderBestValue ==
    Responded200 /\ req.SortBy # "best_value" => Unscored(response.flights)

(* A price-ordered request answered from the entry of a best-value request. *)
C20_PriceRequestHitsBestValueEntry ==
    /\ Responded200
    /\ response.metadata.CacheHit
    /\ req.SortBy = "price"
    /\ Len(response.flights) > 0
    /\ \E e \in cacheProv :
          /\ e.key = generateKey(req)
          /\ e.by.SortBy = "best_value"
          /\ ~Unscored(OwnView(e.by, e.list))

(***************************************************************************)
(* C21.  Every flight an adapter emits has total_minutes = hours * 60 +    *)
(* minutes, whichever form the provider gave the duration in (integer      *)
(* minutes, fractional hours, an "Nh Mm" string), zero and negative        *)
(* values included.                                                        *)
(***************************************************************************)
Searched == unitIn # << >> /\ unitIn.fn = "Search" /\ unitOut # << >>

Answered == Searched /\ unitOut.err = NoErr

C21_DurationPartsAddUp ==
    Answered =>
        \A i \in 1..Len(unitOut.flights) :
            unitOut.flights[i].TotalMinutes
                = unitOut.flights[i].Hours * 60 + unitOut.flights[i].Minutes

(* A flight emitted from a negative fractional-hours duration. *)
C21_NegativeHoursEmitted ==
    /\ Answered
    /\ unitIn.provider = "airasia"
    /\ \E i \in 1..Len(unitOut.flights) :
          /\ unitOut.flights[i].TotalMinutes = 0 - 90
          /\ unitOut.flights[i].Hours = 0 - 1
          /\ unitOut.flights[i].Minutes = 0 - 30

(***************************************************************************)
(* C22.  As stated: every flight an adapter returns for a request departs  *)
(* on the request's departure_date as observed in the departure airport's  *)
(* local zone, whatever zone offset the provider's string carried.         *)
(***************************************************************************)
OfferOf(f) == CHOOSE o \in Range(unitIn.offers) : o.id = f.ID

AirportDay(f) == (f.DepTime.utc + GetLocationByAirport(f.DepAirport)) \div 1440

RequestedDay == ParseDate(unitIn.req.DepartureDate)

C22_DepartsOnRequestedDateAtAirport ==
    Answered =>
        \A i \in 1..Len(unitOut.flights) :
            RequestedDay.ok /\ AirportDay(unitOut.flights[i]) = RequestedDay.day

(***************************************************************************)
(* C22, amended.  Every flight an adapter returns for a request comes      *)
(* from a provider timestamp that spells the request's departure_date:     *)
(* its calendar date in the zone the parse returned (the offset the        *)
(* string carries, UTC for "Z" and for a naive string with seconds, the    *)
(* hinted zone for a naive string without seconds) is departure_date.      *)
(* Observed in the departure airport's local zone the date is              *)
(* departure_date whenever the parse returned that zone.                   *)
(***************************************************************************)
ParsedZone(ts, hint) ==
    CASE ts.fmt \in {"rfc3339", "nocolon"} -> ts.off
      [] ts.fmt \in {"zulu", "naiveTsec", "naiveSpSec"} -> 0
      [] OTHER -> GetLocationByName(hint)

C22_DepartsOnRequestedDateAsSpelled ==
    Answered =>
        \A i \in 1..Len(unitOut.flights) :
            LET f == unitOut.flights[i]
                o == OfferOf(f)
            IN /\ RequestedDay.ok
               /\ o.depart.wall \div 1440 = RequestedDay.day
               /\ ParsedZone(o.depart, HintOf(unitIn.provider, o))
                      = GetLocationByAirport(f.DepAirport)
                    => AirportDay(f) = RequestedDay.day

(* A returned flight whose string carried another zone than the airport's. *)
C22_ReturnedWithForeignOffset ==
    /\ Answered
    /\ \E i \in 1..Len(unitOut.flights) :
          /\ unitOut.flights[i].ID = "A"
          /\ ParsedZone(OfferOf(unitOut.flights[i]).depart,
                        HintOf(unitIn.provider, OfferOf(unitOut.flights[i])))
                 # GetLocationByAirport(unitOut.flights[i].DepAirport)
          /\ AirportDay(unitOut.flights[i]) # RequestedDay.day

(***************************************************************************)
(* C23.  ParseTimeWithOffset, given a timestamp without a zone offset and  *)
(* a non-empty zone hint, returns the instant at which the clocks of the   *)
(* hinted zone show the naive value, for every naive layout it accepts     *)
(* (with or without seconds, 'T' or space separator).  The lionair         *)
(* adapter hands the value on as the flight's departure time.              *)
(***************************************************************************)
NaiveLayouts == {"naiveTsec", "naiveSpSec", "naiveT", "naiveSp"}

C23_NaiveReadInHintedZone ==
    Answered /\ unitIn.provider = "lionair" =>
        \A i \in 1..Len(unitOut.flights) :
            LET f == unitOut.flights[i]
                o == OfferOf(f)
            IN o.depart.fmt \in NaiveLayouts /\ o.tz # "" =>
                   f.DepTime.utc = o.depart.wall - GetLocationByName(o.tz)

(***************************************************************************)
(* C24.  An adapter's Search that answers returns exactly the offers of    *)
(* its fixture whose origin and destination equal the request's whatever   *)
(* the case, whose cabin class equals the request's whatever the case,     *)
(* and whose departure timestamp parses to the calendar date               *)
(* departure_date; an offer whose timestamps do not parse is left out and  *)
(* the call does not fail for it.                                          *)
(***************************************************************************)
Parses(ts, hint) ==
    \/ ts.fmt \in {"rfc3339", "nocolon", "zulu", "naiveTsec", "naiveSpSec"}
    \/ ts.fmt \in {"naiveT", "naiveSp"} /\ hint # ""

DateSpelled(ts) ==
    CASE ts.wall \div 1440 = 0 - 1 -> "2025-12-14"
      [] ts.wall \div 1440 = 0 -> "2025-12-15"
      [] ts.wall \div 1440 = 1 -> "2025-12-16"
      [] OTHER -> "another day"

Wanted(p, o, r) ==
    /\ ToLower(o.from) = ToLower(r.Origin)
    /\ ToLower(o.to) = ToLower(r.Destination)
    /\ ToLower(o.class) = ToLower(r.CabinClass)
    /\ Parses(o.depart, HintOf(p, o))
    /\ Parses(o.arrive, HintOf(p, o))
    /\ DateSpelled(o.depart) = r.DepartureDate

IdsInOrder(s) == [i \in 1..Len(s) |-> IF "ID" \in DOMAIN s[i] THEN s[i].ID ELSE s[i].id]

C24_SearchReturnsExactlyMatchingOffers ==
    /\ Searched =>
          unitOut.err \in {NoErr, DeadlineExceeded, Canceled}
                          \cup (IF unitIn.provider = "airasia"
                                THEN {ErrAirAsiaTemporaryFailure} ELSE {})
    /\ Answered =>
          LET Keep(o) == Wanted(unitIn.provider, o, unitIn.req)
          IN /\ IdsInOrder(unitOut.flights) = IdsInOrder(SelectSeq(unitIn.offers, Keep))
             /\ \A i \in 1..Len(unitOut.flights) :
                   /\ unitOut.flights[i].DepAirport = OfferOf(unitOut.flights[i]).from
                   /\ unitOut.flights[i].ArrAirport = OfferOf(unitOut.flights[i]).to
                   /\ unitOut.flights[i].CabinClass = OfferOf(unitOut.flights[i]).class

(* An offer that matches but whose arrival does not parse is left out,    *)
(* and the provider's other offer is returned.                            *)
C24_UnparsableOfferDropped ==
    /\ Answered
    /\ unitIn.offers[1].arrive.fmt = "bad"
    /\ unitIn.offers[1].depart.fmt = "rfc3339"
    /\ DateSpelled(unitIn.offers[1].depart) = unitIn.req.DepartureDate
    /\ unitIn.offers[1].from = "cgk"
    /\ unitIn.offers[1].class = "Economy"
    /\ IdsInOrder(unitOut.flights) = <<"B">>

(***************************************************************************)
(* C25.  A cache Get that fails is a miss: the request goes on to the      *)
(* aggregation and is never answered with an error on account of the       *)
(* cache.  A cache Set that fails changes nothing in the response: the     *)
(* response to a miss is the 200 response built from the aggregation,      *)
(* the same flights and metadata, whether the entry was written or not.    *)
(***************************************************************************)
C25_CacheFailuresLeaveResponse ==
    /\ hpc = "responded" /\ response.status # StatusOK =>
          \/ response.status = StatusBadRequest
                /\ response.error \in {"invalid_request", "validation_error"}
          \/ /\ response.status = StatusInternalServerError
             /\ response.error = "search_error"
             /\ agg["out"].state = "returned"
             /\ agg["out"].err # NoErr
    /\ Responded200 /\ ~response.metadata.CacheHit =>
          /\ agg["out"].state = "returned"
          /\ agg["out"].err = NoErr
          /\ response = MissResponse(req, agg["out"].result)
          /\ response.metadata.TotalResults
                 = Len(Passing(req, agg["out"].result.Flights))
    /\ hpc \in {"search", "store", "filter"} => response = NoResponse

(* The entry under the request's key survived with other content: the Get *)
(* of this request failed on it and its Set failed too.                   *)
C25_AnsweredWhileBackendDown ==
    /\ Responded200
    /\ ~response.metadata.CacheHit
    /\ Len(response.flights) > 0
    /\ HasEntry(generateKey(req))
    /\ EntryOf(generateKey(req)).data # MarshalFlights(agg["out"].result.Flights)

(***************************************************************************)
(* C26.  As stated: within one Aggregator.Search invocation the number of  *)
(* calls made to a provider, retries included, never exceeds the number    *)
(* of tokens acquired from that provider's bucket.                         *)
(***************************************************************************)
C26_CallsNeverExceedTokens ==
    \A p \in AllProviders : Worker(p).calls <= Worker(p).tokens

(***************************************************************************)
(* C26, amended.  Within one Aggregator.Search invocation a provider is    *)
(* called only after its worker acquired a token from the provider's       *)
(* bucket, and the worker acquires one token only: the first call is       *)
(* gated, the retries are made without a further token, so that up to      *)
(* R + 1 calls are made on one token.                                      *)
(***************************************************************************)
C26_OneTokenBeforeFirstCall ==
    \A p \in AllProviders :
        /\ Worker(p).tokens <= 1
        /\ Worker(p).calls > 0 => Worker(p).tokens = 1
        /\ Worker(p).calls <= Worker(p).tokens * (config.MaxRetries + 1)

(* A retry made on the token of the first call. *)
C26_RetryMadeOnOneToken ==
    \E p \in AllProviders :
        /\ Worker(p).calls = 2
        /\ Worker(p).tokens = 1
        /\ Worker(p).lastErr = ErrAirAsiaTemporaryFailure

(***************************************************************************)
(* C27.  In every interleaving of one Aggregator.Search with N providers:  *)
(* each worker sends one outcome and no more; the queue never holds more   *)
(* than N items, so a worker ready to send always finds room; the queue    *)
(* is closed only after all N sends, and nothing is sent after the close;  *)
(* the consumer has received all N outcomes when Search returns.           *)
(***************************************************************************)
SentBy(p) == Worker(p).pc = "done"

Received == Out.result.ProvidersSucceeded + Out.result.ProvidersFailed

C27_OneOutcomeEachNoneBlockedNoneLost ==
    Out.state # "off" =>
        /\ \A p \in Providers :
              Cardinality({i \in 1..Len(Out.resultCh) : Out.resultCh[i].provider = p})
                  <= (IF SentBy(p) THEN 1 ELSE 0)
        /\ \A i \in 1..Len(Out.resultCh) : Out.resultCh[i].provider \in Providers
        /\ Len(Out.resultCh) + Received = Cardinality({p \in Providers : SentBy(p)})
        /\ Len(Out.resultCh) <= Len(config.providers)
        /\ \A p \in Providers : Worker(p).pc = "emit" =>
              Len(Out.resultCh) < Len(config.providers)
        /\ Out.closed => \A p \in Providers : SentBy(p)
        /\ Out.state = "returned" =>
              /\ Out.closed
              /\ Out.resultCh = << >>
              /\ Received = Len(config.providers)

(* Both workers have sent before the consumer took anything. *)
C27_QueueFull ==
    /\ Out.state = "running"
    /\ Len(config.providers) = 2
    /\ Len(Out.resultCh) = 2
    /\ ~Out.closed

(***************************************************************************)
(* C28.  The rank stage runs exactly when the sort stage orders by the     *)
(* best-value score: for every sort_by that applySort takes for the        *)
(* best_value key, whatever its letter case, the scores it sorts on are    *)
(* the ones CalculateScores computes over the filtered flights; for every  *)
(* other sort_by no score is computed.                                     *)
(***************************************************************************)
C28_RankedWheneverSortedByScore ==
    Applied =>
        IF ToLower(unitIn.sortBy) = "best_value"
        THEN IsPermutation(unitOut.flights, CalculateScores(unitOut.filtered))
        ELSE Unscored(unitOut.flights)

(***************************************************************************)
(* C29.  In every success response, one-way or round-trip, the number of   *)
(* names listed in metadata.failed_providers equals                        *)
(* metadata.providers_failed.                                              *)
(***************************************************************************)
C29_FailedNamesMatchFailedCount ==
    Responded200 =>
        Len(response.metadata.FailedProviders) = response.metadata.ProvidersFailed

(***************************************************************************)
(* C30.  A request with a non-empty return_date never writes the cache     *)
(* and, the cache being written by this coordinator only, is never         *)
(* answered with cache_hit = true: after any sequence of requests every    *)
(* cache entry was stored by a one-way request, one whose return_date is   *)
(* absent or the empty string.                                             *)
(***************************************************************************)
C30_RoundTripNeitherStoresNorHits ==
    /\ \A e \in cache : \E x \in cacheProv : x.key = e.key
    /\ \A x \in cacheProv :
          /\ x.by.ReturnDate = Nil \/ Deref(x.by.ReturnDate) = ""
          /\ x.key = generateKey(x.by)
    /\ IsRoundTrip(req) =>
          /\ \A i \in 1..Len(trace) : trace[i] # "set"
          /\ ~HasEntry(generateKey(req))
          /\ Responded200 => response.kind = "roundtrip" /\ ~response.metadata.CacheHit

(* A round trip answered while the cache holds the entry of a one-way     *)
(* request for the same route and day.                                    *)
C30_RoundTripAnsweredBesideOneWayEntry ==
    /\ IsRoundTrip(req)
    /\ Responded200
    /\ \E x \in cacheProv :
          /\ x.by.Origin = req.Origin
          /\ x.by.Destination = req.Destination
          /\ x.by.DepartureDate = req.DepartureDate
          /\ Len(x.list) > 0
    /\ Len(response.outboundFlights) > 0

(***************************************************************************)
(* C31.  Two valid requests that differ only in the letter case of origin, *)
(* destination or cabin_class, which every adapter answers with the same   *)
(* flights, have the same cache key, so that the second finds the entry    *)
(* stored by the first.                                                    *)
(***************************************************************************)
FoldedCase(r) ==
    [r EXCEPT !.Origin = ToLower(r.Origin), !.Destination = ToLower(r.Destination),
              !.CabinClass = ToLower(r.CabinClass)]

DifferInCaseOnly(a, b) == a # b /\ FoldedCase(a) = FoldedCase(b)

C31_CaseVariantsShareKey ==
    (/\ unitIn # << >>
     /\ unitIn.fn = "generateKey"
     /\ unitOut # << >>
     /\ Validate(unitIn.a).err = NoErr
     /\ Validate(unitIn.b).err = NoErr
     /\ DifferInCaseOnly(unitIn.a, unitIn.b)
     /\ \A p \in AllProviders : ProviderFlights(p, unitIn.a) = ProviderFlights(p, unitIn.b))
        => unitOut[1].key = unitOut[2].key

(***************************************************************************)
(* C32.  A worker whose rate-limiter wait failed, because the deadline or  *)
(* the caller's cancellation ended the context first or the wait would     *)
(* outlast the deadline, makes no upstream call, sends exactly one         *)
(* outcome, which carries the wait's error and no flights, and its         *)
(* provider is counted among the failed ones when Search returns.          *)
(***************************************************************************)
WaitErrors == {ErrWouldExceedDeadline, Canceled, DeadlineExceeded}

WaitFailed(p) == Worker(p).pc \in {"emit", "done"} /\ Worker(p).tokens = 0

Queued(p) == {i \in 1..Len(Out.resultCh) : Out.resultCh[i].provider = p}

TalliedFailed(p) ==
    {i \in 1..Len(Out.result.FailedProviders) : Out.result.FailedProviders[i] = p}

C32_FailedWaitMeansNoCallOneFailure ==
    \A p \in Providers : (Out.state # "off" /\ WaitFailed(p)) =>
        /\ Worker(p).calls = 0
        /\ Worker(p).err \in WaitErrors
        /\ Worker(p).flights = << >>
        /\ \A i \in Queued(p) : Out.resultCh[i].err = Worker(p).err
                                   /\ Out.resultCh[i].flights = << >>
        /\ Cardinality(Queued(p)) + Cardinality(TalliedFailed(p))
              = (IF Worker(p).pc = "done" THEN 1 ELSE 0)
        /\ Out.state = "returned" =>
              /\ Cardinality(TalliedFailed(p)) = 1
              /\ Out.result.ProvidersFailed >= 1
              /\ Out.result.ProvidersFailed = Len(Out.result.FailedProviders)

(* Search has returned; one worker was refused by the limiter while the    *)
(* context was alive, the other one went on to call its provider.          *)
C32_RefusedByLimiterAndCounted ==
    /\ Out.state = "returned"
    /\ \E p \in Providers :
          /\ WaitFailed(p)
          /\ Worker(p).err = ErrWouldExceedDeadline
          /\ Cardinality(TalliedFailed(p)) = 1
    /\ \E p \in Providers : Worker(p).okCalls = 1

(***************************************************************************)
(* C33.  Under any interleaving of concurrent GetLimiter calls, with no    *)
(* SetProviderLimit running beside them, at most one bucket is ever made   *)
(* and inserted for a name, preset ones included, and every caller is      *)
(* handed that bucket; the map is written only by the holder of the write  *)
(* lock, and no goroutine reads it while another one writes it.            *)
(***************************************************************************)
Reading(c) == Caller(c).pc \in {"read", "recheck"}

Writing(c) == Caller(c).pc = "insert"

C33_OneBucketPerNameWritesExclusive ==
    (unitIn # << >> /\ unitIn.fn = "GetLimiter") =>
        /\ \A a, b \in unitOut.made : a.name = b.name => a = b
        /\ \A a, b \in unitOut.limiters : a.name = b.name => a = b
        /\ unitOut.limiters \subseteq unitOut.made
        /\ \A r \in unitOut.returned : r.limiter \in unitOut.limiters
        /\ \A r, q \in unitOut.returned : r.limiter.name = q.limiter.name => r.limiter = q.limiter
        /\ \A c \in Callers : Writing(c) =>
              /\ unitOut.writer = Ptr(c)
              /\ \A d \in Callers \ {c} : ~Reading(d) /\ ~Writing(d)
        /\ \A c \in Callers : Caller(c).pc = "read" => c \in unitOut.readers
        /\ unitOut.writer # Nil => unitOut.readers = {}

(* Three goroutines missed the name under the read lock: one made the     *)
(* bucket and returned it, the second found it on the second look under   *)
(* the write lock, the third still waits for the lock.                    *)
C33_MissedTwiceFoundOnSecondLook ==
    /\ unitIn # << >> /\ unitIn.fn = "GetLimiter"
    /\ \E c, d, e \in Callers : \E b \in unitOut.made :
          /\ c # d /\ d # e /\ c # e
          /\ b.by = Ptr(c)
          /\ [to |-> c, limiter |-> b] \in unitOut.returned
          /\ Caller(d).pc = "unlock"
          /\ Caller(d).limiter = Ptr(b)
          /\ Caller(e).pc = "lock"
          /\ Caller(e).provider = b.name

(***************************************************************************)
(* C34.  For every max_retries R and every retry-delay sequence D: before  *)
(* attempt k >= 1 the retry loop sleeps exactly D[min(k-1, len(D)-1)], the *)
(* last delay being reused when k > len(D); the index it uses is always a  *)
(* valid index of D; and the sleep ends early, with the context's error,   *)
(* if the deadline fires first.                                            *)
(***************************************************************************)
Min(a, b) == IF a <= b THEN a ELSE b

RetryDelayAt(D, i) == D[i + 1]

C34_SleepsClampedDelayAtValidIndex ==
    (unitIn # << >> /\ unitIn.fn = "searchWithRetry") =>
        LET D == unitIn.config.RetryDelays IN
        /\ unitOut.pc # "panicked"
        /\ unitOut.pc = "sleep" => unitOut.delayIdx \in 0..(Len(D) - 1)
        /\ \A i \in 1..Len(unitOut.sleeps) :
              LET sl == unitOut.sleeps[i] IN
              /\ sl.attempt = i
              /\ Min(i - 1, Len(D) - 1) \in 0..(Len(D) - 1)
              /\ sl.delay = RetryDelayAt(D, Min(i - 1, Len(D) - 1))
              /\ sl.cut => /\ i = Len(unitOut.sleeps)
                           /\ unitOut.pc = "returned"
                           /\ Deref(unitOut.ret).err \in {DeadlineExceeded, Canceled}
        /\ unitOut.pc \in {"call", "search"} => Len(unitOut.sleeps) = unitOut.attempt

(* The same with at least one delay configured. *)
C34_HoldsWhereDelaysConfigured ==
    (unitIn # << >> /\ unitIn.fn = "searchWithRetry"
        /\ Len(unitIn.config.RetryDelays) > 0) => C34_SleepsClampedDelayAtValidIndex

(***************************************************************************)
(* C35.  Whatever max_retries is configured, a provider is counted in      *)
(* providers_succeeded only if at least one upstream call to it returned   *)
(* without error during that Search invocation.                            *)
(***************************************************************************)
AnsweredOnce == {p \in Providers : Worker(p).okCalls >= 1}

C35_SucceededOnlyAfterSuccessfulCall ==
    Out.state # "off" =>
        /\ Out.result.ProvidersSucceeded <= Cardinality(AnsweredOnce)
        /\ \A i \in 1..Len(Out.resultCh) :
              Out.resultCh[i].err = NoErr => Out.resultCh[i].provider \in AnsweredOnce
        /\ Out.state = "returned" =>
              \A p \in Providers :
                  Count(Out.result.FailedProviders, p) = 0 => p \in AnsweredOnce

(* The same where max_retries is not negative. *)
C35_HoldsWhereRetriesNotNegative ==
    config.MaxRetries >= 0 => C35_SucceededOnlyAfterSuccessfulCall

(* C36.  Every flight an adapter emits has stops >= 0 and no more         *)
(* layovers than stops, whatever the stop count, the direct flag and the  *)
(* stop list of the provider's offer are.                                 *)
C36_StopsNonNegativeAndCoverLayovers ==
    (unitIn # << >> /\ unitIn.fn = "Search" /\ unitOut # << >> /\ unitOut.err = NoErr) =>
        \A i \in 1..Len(unitOut.flights) :
            /\ unitOut.flights[i].Stops >= 0
            /\ Len(unitOut.flights[i].Layovers) <= unitOut.flights[i].Stops

(* The stop fields of an offer agree: the count is the length of the      *)
(* list, and a direct offer has no stop.                                  *)
ConsistentStops(o) ==
    /\ o.stopCount = Len(o.stopList)
    /\ o.direct <=> o.stopList = << >>

(* The same where the stop fields of every offer agree. *)
C36_HoldsWhereStopInputsAgree ==
    (unitIn # << >> /\ unitIn.fn = "Search"
        /\ \A i \in 1..Len(unitIn.offers) : ConsistentStops(unitIn.offers[i]))
      => C36_StopsNonNegativeAndCoverLayovers

(* The offset, in minutes, that a zone tag of a flight stands for. *)
TagOffset(tag) ==
    CASE tag = "WITA" -> 8 * 60
      [] tag = "WIT" -> 9 * 60
      [] OTHER -> 7 * 60

DepartureOffsetMatchesTag(f) == f.DepTime.off = TagOffset(f.DepTimezone)

ArrivalOffsetMatchesTag(f) == f.ArrTime.off = TagOffset(f.ArrTimezone)

(* C37.  For every flight an adapter emits, the offset of departure.time  *)
(* is the offset of the zone tag in departure.timezone, and the offset of *)
(* arrival.time is the offset of the zone tag in arrival.timezone.        *)
C37_TimeOffsetsMatchZoneTags ==
    (unitIn # << >> /\ unitIn.fn = "Search" /\ unitOut # << >> /\ unitOut.err = NoErr) =>
        \A i \in 1..Len(unitOut.flights) :
            /\ DepartureOffsetMatchesTag(unitOut.flights[i])
            /\ ArrivalOffsetMatchesTag(unitOut.flights[i])

(* The same for the arrival of every adapter, and for the departure of    *)
(* every adapter but lionair.                                             *)
C37_HoldsButForLionairDeparture ==
    (unitIn # << >> /\ unitIn.fn = "Search" /\ unitOut # << >> /\ unitOut.err = NoErr) =>
        \A i \in 1..Len(unitOut.flights) :
            /\ unitIn.provider # "lionair" => DepartureOffsetMatchesTag(unitOut.flights[i])
            /\ ArrivalOffsetMatchesTag(unitOut.flights[i])

PriceAmounts(flights) == [i \in 1..Len(flights) |-> flights[i].Price]

Unrecognized(sortBy) == ToLower(sortBy) \notin RecognizedSortKeys

(* C38.  When sort_by is none of the recognized keys, the sort stage      *)
(* returns the flights it was given in non-decreasing price.amount,       *)
(* whatever sort_order is, desc included.                                 *)
C38_UnrecognizedKeySortsByPriceAscending ==
    Applied /\ Unrecognized(unitIn.sortBy) =>
        /\ NonDecreasing(PriceAmounts(unitOut.sorted))
        /\ Len(unitOut.sorted) = Len(unitOut.ranked)
        /\ Ids(unitOut.sorted) = Ids(unitOut.ranked)

(* A descending request with an unrecognized key over flights of          *)
(* different prices, the dearer one first: the cheapest comes out first.  *)
C38_DescendingUnknownKeyCheapestFirst ==
    /\ Applied
    /\ Unrecognized(unitIn.sortBy)
    /\ unitIn.sortOrder = "desc"
    /\ Len(unitOut.ranked) >= 2
    /\ unitOut.ranked[1].Price > unitOut.ranked[2].Price
    /\ unitOut.sorted[1].Price < unitOut.sorted[Len(unitOut.sorted)].Price
=============================================================================
